---- MODULE Spec2Model ----
(***************************************************************************)
(* Ledger & Allocation Engine of the subscription bot (src/db.py,          *)
(* src/main.py): wallet ledger, link pool allocator, deposit requests,     *)
(* purchase / subscription lifecycle, referral links, and the Jalali       *)
(* calendar arithmetic the renewal dates are computed with.                *)
(*                                                                         *)
(* Handlers are coroutines: every `await` of a db function is a point      *)
(* where another handler may run.  Every db function opens its own SQLite  *)
(* connection; a connection takes the database write lock at its first     *)
(* INSERT/UPDATE/DELETE (or at BEGIN IMMEDIATE) and keeps it until it      *)
(* commits or is closed, and what it wrote is invisible to the other       *)
(* connections until the commit.  `writer` is the task holding that lock.  *)
(***************************************************************************)
EXTENDS Integers, Sequences, FiniteSets, TLC

\* ------------------------------------------------------------------------
\* Calendar arithmetic (src/main.py 153-254)
\* ------------------------------------------------------------------------

Min(a, b) == IF a < b THEN a ELSE b

\* g_d_m of gregorian_to_jalali: days before each Gregorian month (1-based here)
g_d_m == <<0, 31, 59, 90, 120, 151, 181, 212, 243, 273, 304, 334>>

\* the (jy, days) pair after the `if days > 365` step, written with >= instead of >
G2JYearStepOffByOne(jy, days) ==
    IF days >= 365 THEN <<jy + ((days - 1) \div 365), (days - 1) % 365>>
                   ELSE <<jy, days>>

\* gregorian_to_jalali, lines 178-180
G2JYearStep(jy, days) ==
    IF days > 365 THEN <<jy + ((days - 1) \div 365), (days - 1) % 365>>
                  ELSE <<jy, days>>

gregorian_to_jalali(gy0, gm, gd) ==
    LET jy0   == IF gy0 > 1600 THEN 979 ELSE 0
        gy    == IF gy0 > 1600 THEN gy0 - 1600 ELSE gy0 - 621
        gy2   == IF gm > 2 THEN gy + 1 ELSE gy
        days0 == (365 * gy) + ((gy2 + 3) \div 4) - ((gy2 + 99) \div 100)
                 + ((gy2 + 399) \div 400) - 80 + gd + g_d_m[gm]
        jy1   == jy0 + 33 * (days0 \div 12053)
        days1 == days0 % 12053
        jy2   == jy1 + 4 * (days1 \div 1461)
        days2 == days1 % 1461
        st    == G2JYearStep(jy2, days2)
        jy    == st[1]
        days  == st[2]
    IN  IF days < 186
        THEN <<jy, 1 + (days \div 31), 1 + (days % 31)>>
        ELSE <<jy, 7 + ((days - 186) \div 30), 1 + ((days - 186) % 30)>>

\* leap test of jalali_to_gregorian, line 220
GregLeap(gy) == (gy % 4 = 0 /\ gy % 100 # 0) \/ (gy % 400 = 0)

\* sal_a of jalali_to_gregorian, lines 219-222
sal_a(gy) == <<31, IF GregLeap(gy) THEN 29 ELSE 28, 31, 30, 31, 30, 31, 31, 30, 31, 30, 31>>

\* the month-walking loop of jalali_to_gregorian, lines 224-227
RECURSIVE J2GMonthLoop(_, _, _)
J2GMonthLoop(gy, gm, gd) ==
    IF gm <= 12 /\ gd > sal_a(gy)[gm]
    THEN J2GMonthLoop(gy, gm + 1, gd - sal_a(gy)[gm])
    ELSE <<gy, gm, gd>>

jalali_to_gregorian(jy0, jm, jd) ==
    LET jy    == jy0 + 1595
        days0 == -355668 + (365 * jy) + ((jy \div 33) * 8) + (((jy % 33) + 3) \div 4) + jd
        days1 == IF jm < 7 THEN days0 + (jm - 1) * 31
                           ELSE days0 + ((jm - 7) * 30) + 186
        gy1   == 400 * (days1 \div 146097)
        days2 == days1 % 146097
        big   == days2 > 36524
        gy2   == IF big THEN gy1 + 100 * ((days2 - 1) \div 36524) ELSE gy1
        days3 == IF big THEN (days2 - 1) % 36524 ELSE days2
        days4 == IF big /\ days3 >= 365 THEN days3 + 1 ELSE days3
        gy3   == gy2 + 4 * (days4 \div 1461)
        days5 == days4 % 1461
        gy4   == IF days5 > 365 THEN gy3 + ((days5 - 1) \div 365) ELSE gy3
        days6 == IF days5 > 365 THEN (days5 - 1) % 365 ELSE days5
    IN  J2GMonthLoop(gy4, 1, days6 + 1)

jalali_month_days(jy, jm) ==
    IF jm <= 6 THEN 31
    ELSE IF jm <= 11 THEN 30
    ELSE LET a == jy - 474
             b == (a % 2820) + 474
             leap == (((b + 38) * 682) % 2816) < 682
         IN  IF leap THEN 30 ELSE 29

\* A datetime is [y, m, d, tod]: the Gregorian date and the minute of the day.
DateTime(y, m, d, tod) == [y |-> y, m |-> m, d |-> d, tod |-> tod]

\* add_months_shamsi 243-254: to Jalali, add the months, clamp the day to
\* jalali_month_days of the target month, back to Gregorian; the time of day
\* is kept
add_months_shamsi(dt, months) ==
    LET j       == gregorian_to_jalali(dt.y, dt.m, dt.d)
        total   == (j[2] - 1) + months
        new_jy  == j[1] + (total \div 12)
        new_jm  == (total % 12) + 1
        max_day == jalali_month_days(new_jy, new_jm)
        new_jd  == Min(j[3], max_day)
        g       == jalali_to_gregorian(new_jy, new_jm, new_jd)
    IN  DateTime(g[1], g[2], g[3], dt.tod)


\* datetime + timedelta(days=1) and - timedelta(days=1) on the date part
GregNextDay(dt) ==
    IF dt.d < sal_a(dt.y)[dt.m] THEN [dt EXCEPT !.d = dt.d + 1]
    ELSE IF dt.m < 12 THEN [dt EXCEPT !.m = dt.m + 1, !.d = 1]
    ELSE [dt EXCEPT !.y = dt.y + 1, !.m = 1, !.d = 1]

GregPrevDay(dt) ==
    IF dt.d > 1 THEN [dt EXCEPT !.d = dt.d - 1]
    ELSE IF dt.m > 1 THEN [dt EXCEPT !.m = dt.m - 1, !.d = sal_a(dt.y)[dt.m - 1]]
    ELSE [dt EXCEPT !.y = dt.y - 1, !.m = 12, !.d = 31]

\* IRAN_OFFSET = timedelta(hours=3, minutes=30), in minutes
IRAN_OFFSET == 210

to_iran(dt) ==
    IF dt.tod + IRAN_OFFSET >= 1440
    THEN [GregNextDay(dt) EXCEPT !.tod = dt.tod + IRAN_OFFSET - 1440]
    ELSE [dt EXCEPT !.tod = dt.tod + IRAN_OFFSET]

from_iran(dt) ==
    IF dt.tod - IRAN_OFFSET < 0
    THEN [GregPrevDay(dt) EXCEPT !.tod = dt.tod - IRAN_OFFSET + 1440]
    ELSE [dt EXCEPT !.tod = dt.tod - IRAN_OFFSET]

\* datetime comparison a > b (naive datetimes compare field by field)
DtAfter(a, b) ==
    \/ a.y > b.y
    \/ a.y = b.y /\ a.m > b.m
    \/ a.y = b.y /\ a.m = b.m /\ a.d > b.d
    \/ a.y = b.y /\ a.m = b.m /\ a.d = b.d /\ a.tod > b.tod

\* ------------------------------------------------------------------------
\* Integers and floats of the commission (src/main.py 80, 720)
\* ------------------------------------------------------------------------

\* A Python int is a sequence of digits of DigitBits bits, least significant
\* first, without a leading zero digit; <<>> is 0.
DigitBits == 15
Base == 2 ^ DigitBits

RECURSIVE BigOf(_)
BigOf(n) == IF n = 0 THEN <<>> ELSE <<n % Base>> \o BigOf(n \div Base)

RECURSIVE IntOf(_)
IntOf(a) == IF a = <<>> THEN 0 ELSE a[1] + Base * IntOf(Tail(a))

BigTrim(s) ==
    LET nz == {i \in 1..Len(s) : s[i] # 0}
    IN  IF nz = {} THEN <<>>
        ELSE SubSeq(s, 1, CHOOSE i \in nz : \A j \in nz : j <= i)

Digit(a, i) == IF i \in 1..Len(a) THEN a[i] ELSE 0

\* a + b + c, c a carry of one digit
RECURSIVE BigAddC(_, _, _)
BigAddC(a, b, c) ==
    IF a = <<>> /\ b = <<>> THEN BigOf(c)
    ELSE LET s == Digit(a, 1) + Digit(b, 1) + c
         IN  BigTrim(<<s % Base>> \o BigAddC(IF a = <<>> THEN <<>> ELSE Tail(a),
                                            IF b = <<>> THEN <<>> ELSE Tail(b),
                                            s \div Base))

BigAdd(a, b) == BigAddC(a, b, 0)

\* a * d + c, d and c of one digit
RECURSIVE BigMulDigit(_, _, _)
BigMulDigit(a, d, c) ==
    IF a = <<>> THEN BigOf(c)
    ELSE LET s == a[1] * d + c
         IN  BigTrim(<<s % Base>> \o BigMulDigit(Tail(a), d, s \div Base))

RECURSIVE BigMul(_, _)
BigMul(a, b) ==
    IF b = <<>> THEN <<>>
    ELSE BigAdd(BigMulDigit(a, b[1], 0), BigTrim(<<0>> \o BigMul(a, Tail(b))))

\* the number of bits of d, and of a
RECURSIVE BitLen(_)
BitLen(d) == IF d = 0 THEN 0 ELSE 1 + BitLen(d \div 2)

BigBitLen(a) == IF a = <<>> THEN 0 ELSE DigitBits * (Len(a) - 1) + BitLen(a[Len(a)])

\* bit i of a, bit 0 the least significant
BigBit(a, i) == (Digit(a, i \div DigitBits + 1) \div 2 ^ (i % DigitBits)) % 2

\* a * 2^k and a \div 2^k
BigShl(a, k) ==
    BigTrim([i \in 1..(k \div DigitBits) |-> 0] \o BigMulDigit(a, 2 ^ (k % DigitBits), 0))

BigShr(a, k) ==
    LET w == k \div DigitBits
        r == k % DigitBits
    IN  BigTrim([i \in 1..(Len(a) - w) |->
                    Digit(a, i + w) \div 2 ^ r
                    + (Digit(a, i + w + 1) % 2 ^ r) * 2 ^ (DigitBits - r)])

\* a < b
BigLess(a, b) ==
    \/ Len(a) < Len(b)
    \/ /\ Len(a) = Len(b)
       /\ \E i \in 1..Len(a) : /\ a[i] < b[i]
                               /\ \A k \in (i + 1)..Len(a) : a[k] = b[k]

\* the integer written in decimal, given in groups of four decimal digits
RECURSIVE FromDecimal(_)
FromDecimal(gs) ==
    IF gs = <<>> THEN <<>>
    ELSE BigMulDigit(FromDecimal(SubSeq(gs, 1, Len(gs) - 1)), 10000, gs[Len(gs)])

\* A float is mant * 2^-exp. REF_PERCENT = 0.15 is the double
\* 0x1.3333333333333p-3 = 5404319552844595 * 2^-55.
REF_PERCENT == [mant |-> FromDecimal(<<5404, 3195, 5284, 4595>>), exp |-> 55]

\* the nearest double of the integer p (MantBits significant bits, ties to
\* even)
MantBits == 53

RoundToDouble(p) ==
    IF BigBitLen(p) <= MantBits THEN p
    ELSE LET s      == BigBitLen(p) - MantBits
             q      == BigShr(p, s)
             sticky == \E i \in 0..(s - 2) : BigBit(p, i) = 1
             up     == BigBit(p, s - 1) = 1 /\ (sticky \/ BigBit(q, 0) = 1)
         IN  BigShl(IF up THEN BigAdd(q, <<1>>) ELSE q, s)

\* int(amount * REF_PERCENT): the int becomes a double, the product of the
\* two doubles is rounded to a double, and int() drops the fraction
IntOfProduct(amount, f) ==
    BigShr(RoundToDouble(BigMul(f.mant, RoundToDouble(amount))), f.exp)

\* ------------------------------------------------------------------------
\* Configuration (src/main.py 79-80) and the bounds of the model
\* ------------------------------------------------------------------------

\* PLANS = {2: 150_000, 4: 265_000, 6: 350_000, 12: 600_000}
PLANS == [mo \in {2, 4, 6, 12} |->
            CASE mo = 2 -> 150000 [] mo = 4 -> 265000 [] mo = 6 -> 350000 [] mo = 12 -> 600000]

PlanMonths == DOMAIN PLANS

Users == {1, 2}

\* concurrent handler invocations (aiogram runs each update as its own task)
MaxTasks == 2
Tasks == 1..MaxTasks

\* how many handler invocations one behaviour may start
MaxCalls == 2

\* calendar years the calendar specification draws its dates from
CalFirstYear == 1601
CalYears == 600

\* the month counts the handlers pass to add_months_shamsi (plans; +1/+3 extension)
CalMonths == PlanMonths \cup {1, 3}

NoLink == ""

\* ------------------------------------------------------------------------
\* State
\* ------------------------------------------------------------------------
VARIABLES
    now,        \* datetime.utcnow()
    ticks,      \* how often the clock advanced
    wallets,    \* table wallets: user -> [row, balance]
    users,      \* table users: user -> [row, referrer]; referrer 0 is NULL
    referrals,  \* table referrals: set of <<referrer_id, referred_id>>
    deposits,   \* table deposit_requests: sequence of [user, amount, status]
    orders,     \* table orders: sequence of [user, months, amount, status, link]
    refProfit,  \* table referral_profits: referrer -> total_profit
    subs,       \* table subscriptions: user -> [row, expires, reminded, notified]
    links,      \* table links: sequence of [link, used, order, user, deleted]
    writer,     \* the task whose connection holds the SQLite write lock
    pc,         \* task -> position in its handler
    loc,        \* task -> the handler's local variables
    calls,      \* number of handler invocations started so far
    ledger,     \* history: the credits and debits reported as successful, per user
    done,       \* history: the finished invocations with what they returned
    calPc, calIn, calJ, calN, calOut,  \* the calendar functions' inputs and outputs
    numPc, numIn, numOut,              \* the commission computation's input and output
    wpc,        \* subscription_watcher: position in its loop
    wloc,       \* subscription_watcher: local variables of the cycle
    notices,    \* history: the reminders and expiry notices the watcher sent
    faults      \* how many watcher cycles ended in the `except` of line 1347

storeVars == <<wallets, users, referrals, refProfit, deposits, orders, subs, links>>
taskVars == <<writer, pc, loc, calls, ledger, done>>
calVars == <<calPc, calIn, calJ, calN, calOut>>
numVars == <<numPc, numIn, numOut>>
watchVars == <<wpc, wloc, notices, faults>>
funVars == <<calVars, numVars, watchVars>>
clock == <<now, ticks>>
vars == <<clock, storeVars, taskVars, funVars>>

NoDate == DateTime(0, 0, 0, 0)
NoSub == [row |-> FALSE, expires |-> NoDate, reminded |-> FALSE, notified |-> FALSE]
NoWallet == [row |-> FALSE, balance |-> 0]

NoUser == [row |-> FALSE, referrer |-> 0]

\* the local variables of a handler invocation (all handlers share one record shape)
Loc0 == [id |-> 0, h |-> "", u |-> 0, months |-> 0, amount |-> 0,
         pre |-> 0,        \* confirm_purchase: bal of get_wallet_balance
         seen |-> 0,       \* try_deduct_wallet: bal read inside the transaction
         after |-> 0,      \* history: the committed balance right after the call's commit
         ret |-> 0,        \* the balance a wallet function returned
         ok |-> FALSE,     \* the boolean a db function returned
         cu |-> 0, camount |-> 0, stage |-> "",   \* add_wallet_balance's arguments and caller
         order |-> 0, sub |-> NoSub, nowUtc |-> NoDate, newExp |-> NoDate,
         linkId |-> 0, link |-> NoLink, dep |-> 0, ref |-> 0, late |-> FALSE,
         lines |-> <<>>,   \* add_links: the texts to insert
         pending |-> <<>>, \* admin_links_fulfill: the orders still to serve
         served |-> <<>>,  \* history: the orders admin_links_fulfill delivered, in order
         sent |-> FALSE,   \* history: whether bot.send_message delivered
         out |-> ""]       \* what the handler reported


\* ------------------------------------------------------------------------
\* Initial values shared by the specifications
\* ------------------------------------------------------------------------
Noon == 12 * 60

TasksIdle ==
    /\ writer = 0
    /\ pc = [t \in Tasks |-> "idle"]
    /\ loc = [t \in Tasks |-> Loc0]
    /\ calls = 0
    /\ ledger = [u \in Users |-> [start |-> IF wallets[u].row THEN wallets[u].balance ELSE 0,
                                  credited |-> 0, debited |-> 0]]
    /\ done = {}

NumIdle ==
    /\ numPc = "off"
    /\ numIn = <<>>
    /\ numOut = <<>>

\* the local variables of a watcher cycle
WLoc0 == [nowUtc |-> NoDate, list |-> <<>>, u |-> 0]

\* subscription_watcher is not running
WatchIdle ==
    /\ wpc = "off"
    /\ wloc = WLoc0
    /\ notices = <<>>
    /\ faults = 0

CalIdle ==
    /\ NumIdle
    /\ WatchIdle
    /\ calPc = "off"
    /\ calIn = NoDate
    /\ calJ = <<0, 0, 0>>
    /\ calN = 0
    /\ calOut = NoDate

StoreEmpty ==
    /\ wallets = [u \in Users |-> NoWallet]
    /\ users = [u \in Users |-> NoUser]
    /\ referrals = {}
    /\ refProfit = [u \in Users |-> 0]
    /\ deposits = <<>>
    /\ orders = <<>>
    /\ subs = [u \in Users |-> NoSub]
    /\ links = <<>>

\* ------------------------------------------------------------------------
\* Calendar specification: the conversion functions applied to every date of
\* the years CalFirstYear .. CalFirstYear + CalYears - 1
\* ------------------------------------------------------------------------
CalDates ==
    { dt \in [y : CalFirstYear..(CalFirstYear + CalYears - 1), m : 1..12, d : 1..31,
              tod : {Noon}] : dt.d <= sal_a(dt.y)[dt.m] }

CalInit ==
    /\ NumIdle
    /\ WatchIdle
    /\ now = NoDate
    /\ ticks = 0
    /\ StoreEmpty
    /\ TasksIdle
    /\ calPc = "in"
    /\ calIn \in CalDates
    /\ calJ = <<0, 0, 0>>
    /\ calN = 0
    /\ calOut = NoDate

\* jy, jm, jd = gregorian_to_jalali(dt.year, dt.month, dt.day)
CalToCivil ==
    /\ calPc = "in"
    /\ calJ' = gregorian_to_jalali(calIn.y, calIn.m, calIn.d)
    /\ calPc' = "civil"
    /\ UNCHANGED <<calIn, calN, calOut, clock, storeVars, taskVars, numVars, watchVars>>

\* gy, gm, gd = jalali_to_gregorian(jy, jm, jd) on the converted date
CalToGregorian ==
    /\ calPc = "civil"
    /\ LET g == jalali_to_gregorian(calJ[1], calJ[2], calJ[3])
       IN  calOut' = DateTime(g[1], g[2], g[3], calIn.tod)
    /\ calPc' = "back"
    /\ UNCHANGED <<calIn, calJ, calN, clock, storeVars, taskVars, numVars, watchVars>>

\* add_months_shamsi(dt, n)
CalAddMonths ==
    /\ calPc = "in"
    /\ \E n \in CalMonths :
         /\ calN' = n
         /\ calOut' = add_months_shamsi(calIn, n)
    /\ calJ' = gregorian_to_jalali(calIn.y, calIn.m, calIn.d)
    /\ calPc' = "added"
    /\ UNCHANGED <<calIn, clock, storeVars, taskVars, numVars, watchVars>>

CalNext == CalToCivil \/ CalToGregorian \/ CalAddMonths

SpecCal == CalInit /\ [][CalNext]_vars

\* C9: for every Gregorian date d of the range, converting d to the civil
\* calendar and back yields d again: toGregorian(toCivil(d)) = d.
RoundTrip == calPc = "back" => calOut = calIn

\* a round trip was computed for a Gregorian leap day
RoundTripWitness ==
    /\ calPc = "back"
    /\ calOut = calIn
    /\ calIn.m = 2 /\ calIn.d = 29

\* the civil month n months after the civil date j, with the day clamped
TargetCivil(j, n) ==
    LET total == (j[2] - 1) + n
        ty == j[1] + (total \div 12)
        tm == (total % 12) + 1
    IN  <<ty, tm, Min(j[3], jalali_month_days(ty, tm))>>

\* C8: addMonths(d, n), converted back with toCivil, is the day
\* min(day of d, daysInMonth(target)) of the target civil month; it never
\* lands in the following month.
AddMonthsClamps ==
    calPc = "added" =>
        gregorian_to_jalali(calOut.y, calOut.m, calOut.d) = TargetCivil(calJ, calN)


\* ------------------------------------------------------------------------
\* Tasks and the SQLite write lock
\* ------------------------------------------------------------------------

\* a connection that skips the write lock (journal locking switched off)
CanWriteUnlocked(t) == TRUE

\* a connection gets the write lock only while no other connection holds it
CanWrite(t) == writer = 0

At(t, p) == pc[t] = p

\* a handler invocation begins in an idle task slot; the slots are
\* interchangeable, so it takes the first idle one
Begin(t, h, first, fields) ==
    /\ pc[t] = "idle"
    /\ \A s \in Tasks : s < t => pc[s] # "idle"
    /\ calls < MaxCalls
    /\ calls' = calls + 1
    /\ pc' = [pc EXCEPT ![t] = first]
    /\ loc' = [loc EXCEPT ![t] = [k \in DOMAIN Loc0 |->
                   IF k \in DOMAIN fields THEN fields[k]
                   ELSE IF k = "id" THEN calls + 1
                   ELSE IF k = "h" THEN h ELSE Loc0[k]]]

\* the handler returns: its locals go to the history and the slot is free again
Finish(t, l) ==
    /\ pc' = [pc EXCEPT ![t] = "idle"]
    /\ loc' = [loc EXCEPT ![t] = Loc0]
    /\ done' = done \cup {l}

Goto(t, p, l) ==
    /\ pc' = [pc EXCEPT ![t] = p]
    /\ loc' = [loc EXCEPT ![t] = l]

\* ------------------------------------------------------------------------
\* Wallet (src/db.py 213-247)
\* ------------------------------------------------------------------------

\* get_wallet_balance: row ? row[0] : 0
get_wallet_balance(u) == IF wallets[u].row THEN wallets[u].balance ELSE 0

\* try_deduct_wallet's test with the comparison dropped
DebitAlways(bal, amount) == TRUE

\* try_deduct_wallet line 241: `if bal < amount: return False, bal`
DebitAllowed(bal, amount) == ~(bal < amount)

\* an UPDATE that overwrites the balance with the amount instead of adding it
CreditOverwrites(bal, amount) == amount

\* add_wallet_balance line 226: balance = balance + ?
CreditedBalance(bal, amount) == bal + amount

\* an UPDATE that takes the amount twice
DebitedTwice(bal, amount) == bal - 2 * amount

\* try_deduct_wallet line 243: balance = balance - ?
DebitedBalance(bal, amount) == bal - amount

\* where a caller of try_deduct_wallet goes on
AfterDebit(l) ==
    IF l.h = "purchase"
    THEN IF l.ok THEN "cp_order" ELSE "cp_deduct_failed"
    ELSE "return"

\* where a caller of add_wallet_balance goes on
AfterCredit(l) ==
    IF l.h = "approve"
    THEN IF l.stage = "owner" THEN "da_user" ELSE "da_profit"
    ELSE "return"

\* try_deduct_wallet 235-238: INSERT .. ON CONFLICT DO NOTHING opens the
\* write transaction of this connection
TdInsert(t) ==
    /\ At(t, "td_insert")
    /\ CanWrite(t)
    /\ writer' = t
    /\ Goto(t, "td_select", loc[t])
    /\ UNCHANGED <<clock, storeVars, calls, ledger, done, funVars>>

\* try_deduct_wallet 239-242: SELECT balance; `return False, bal` leaves the
\* `async with` without a commit, so the inserted row is rolled back
TdSelect(t) ==
    /\ At(t, "td_select")
    /\ LET bal == get_wallet_balance(loc[t].u)
           l   == [loc[t] EXCEPT !.seen = bal]
       IN  IF DebitAllowed(bal, l.amount)
           THEN /\ Goto(t, "td_update", l)
                /\ UNCHANGED writer
           ELSE /\ Goto(t, AfterDebit([l EXCEPT !.ok = FALSE]),
                        [l EXCEPT !.ok = FALSE, !.ret = bal,
                                  !.after = get_wallet_balance(l.u)])
                /\ writer' = IF writer = t THEN 0 ELSE writer
    /\ UNCHANGED <<clock, storeVars, calls, ledger, done, funVars>>

\* try_deduct_wallet 243-244: UPDATE and commit
TdUpdate(t) ==
    /\ At(t, "td_update")
    /\ LET u  == loc[t].u
           nb == DebitedBalance(get_wallet_balance(u), loc[t].amount)
       IN  /\ wallets' = [wallets EXCEPT ![u] = [row |-> TRUE, balance |-> nb]]
           /\ Goto(t, "td_reselect", [loc[t] EXCEPT !.after = nb])
    /\ writer' = IF writer = t THEN 0 ELSE writer
    /\ UNCHANGED <<clock, users, referrals, refProfit, deposits, orders, subs, links,
                   calls, ledger, done, funVars>>

\* try_deduct_wallet 245-247: SELECT the balance again, `return True, new_bal`
TdReselect(t) ==
    /\ At(t, "td_reselect")
    /\ LET l == [loc[t] EXCEPT !.ok = TRUE, !.ret = get_wallet_balance(loc[t].u)]
       IN  /\ Goto(t, AfterDebit(l), l)
           /\ ledger' = [ledger EXCEPT ![l.u].debited = @ + l.amount]
    /\ UNCHANGED <<clock, storeVars, writer, calls, done, funVars>>

\* add_wallet_balance 222-225: INSERT .. ON CONFLICT DO NOTHING opens the
\* write transaction
AwbInsert(t) ==
    /\ At(t, "awb_insert")
    /\ CanWrite(t)
    /\ writer' = t
    /\ Goto(t, "awb_update", loc[t])
    /\ UNCHANGED <<clock, storeVars, calls, ledger, done, funVars>>

\* add_wallet_balance 226-227: UPDATE and commit
AwbUpdate(t) ==
    /\ At(t, "awb_update")
    /\ LET u  == loc[t].cu
           nb == CreditedBalance(get_wallet_balance(u), loc[t].camount)
       IN  /\ wallets' = [wallets EXCEPT ![u] = [row |-> TRUE, balance |-> nb]]
           /\ Goto(t, "awb_select", [loc[t] EXCEPT !.after = nb])
    /\ writer' = IF writer = t THEN 0 ELSE writer
    /\ UNCHANGED <<clock, users, referrals, refProfit, deposits, orders, subs, links,
                   calls, ledger, done, funVars>>

\* add_wallet_balance 228-230: SELECT the balance, return it
AwbSelect(t) ==
    /\ At(t, "awb_select")
    /\ LET l == [loc[t] EXCEPT !.ret = get_wallet_balance(loc[t].cu)]
       IN  /\ Goto(t, AfterCredit(l), l)
           /\ ledger' = [ledger EXCEPT ![l.cu].credited = @ + l.camount]
    /\ UNCHANGED <<clock, storeVars, writer, calls, done, funVars>>

\* the wallet the direct callers work on, and the amounts they pass
WalletUsers == {1}
CreditAmounts == {100000}
DebitAmounts == {PLANS[2]}

\* a caller of credit(user, amount) outside the handlers modelled below
CallCredit(t) ==
    /\ \E u \in WalletUsers, a \in CreditAmounts :
         Begin(t, "credit", "awb_insert", [cu |-> u, camount |-> a, u |-> u, amount |-> a])
    /\ UNCHANGED <<clock, storeVars, writer, ledger, done, funVars>>

\* a caller of tryDebit(user, amount) outside the handlers modelled below
CallDebit(t) ==
    /\ \E u \in WalletUsers, a \in DebitAmounts :
         Begin(t, "debit", "td_insert", [u |-> u, amount |-> a])
    /\ UNCHANGED <<clock, storeVars, writer, ledger, done, funVars>>

\* the direct caller gets the function's result
Return(t) ==
    /\ At(t, "return")
    /\ Finish(t, loc[t])
    /\ UNCHANGED <<clock, storeVars, writer, calls, ledger, funVars>>


\* ------------------------------------------------------------------------
\* Link pool (src/db.py 620-657)
\* ------------------------------------------------------------------------

\* SELECT .. FROM links without WHERE is_used=0
AnyLinks == {i \in DOMAIN links : ~links[i].deleted}

UnusedLinks == {i \in DOMAIN links : ~links[i].used /\ ~links[i].deleted}

\* SELECT .. ORDER BY id DESC LIMIT 1
NewestUnused == CHOOSE i \in UnusedLinks : \A j \in UnusedLinks : j <= i

\* SELECT .. WHERE is_used=0 ORDER BY id ASC LIMIT 1
OldestUnused == CHOOSE i \in UnusedLinks : \A j \in UnusedLinks : i <= j

\* where a caller of pop_available_link_for_order goes on
AfterPop(l) ==
    IF l.h = "purchase"
    THEN IF l.link # NoLink THEN "cp_notify" ELSE "cp_queued"
    ELSE IF l.h = "fulfill"
    THEN IF l.link # NoLink THEN "fl_send" ELSE "fl_count"
    ELSE "return"

\* pop_available_link_for_order 625: BEGIN IMMEDIATE takes the write lock
PopBegin(t) ==
    /\ At(t, "pop_begin")
    /\ CanWrite(t)
    /\ writer' = t
    /\ Goto(t, "pop_select", loc[t])
    /\ UNCHANGED <<clock, storeVars, calls, ledger, done, funVars>>

\* pop_available_link_for_order 628-637: the oldest unused link, or COMMIT
\* and `return None`
PopSelect(t) ==
    /\ At(t, "pop_select")
    /\ IF UnusedLinks = {}
       THEN /\ Goto(t, AfterPop([loc[t] EXCEPT !.link = NoLink]),
                    [loc[t] EXCEPT !.link = NoLink, !.linkId = 0])
            /\ writer' = IF writer = t THEN 0 ELSE writer
       ELSE /\ Goto(t, "pop_update",
                    [loc[t] EXCEPT !.linkId = OldestUnused, !.link = links[OldestUnused].link])
            /\ UNCHANGED writer
    /\ UNCHANGED <<clock, storeVars, calls, ledger, done, funVars>>

\* pop_available_link_for_order 639-657: mark the link used, the order
\* delivered, COMMIT, `return link`
PopUpdate(t) ==
    /\ At(t, "pop_update")
    /\ LET l == loc[t]
       IN  /\ links' = [links EXCEPT ![l.linkId] =
                           [@ EXCEPT !.used = TRUE, !.order = l.order, !.user = l.u]]
           /\ orders' = IF l.order \in DOMAIN orders
                        THEN [orders EXCEPT ![l.order] =
                                 [@ EXCEPT !.status = "delivered", !.link = l.link]]
                        ELSE orders
           /\ Goto(t, AfterPop(l), l)
    /\ writer' = IF writer = t THEN 0 ELSE writer
    /\ UNCHANGED <<clock, wallets, users, referrals, refProfit, deposits, subs,
                   calls, ledger, done, funVars>>

\* ------------------------------------------------------------------------
\* Purchase (src/main.py 810-887)
\* ------------------------------------------------------------------------

\* the renewal base always taken as now
RenewalBaseNow(sub, nowUtc) == nowUtc

\* confirm_purchase 834-838: the later of now and the current expiry
RenewalBase(sub, nowUtc) ==
    IF sub.row /\ DtAfter(sub.expires, nowUtc) THEN sub.expires ELSE nowUtc

\* confirm_purchase 840-842: to_iran, add_months_shamsi, from_iran
NewExpiry(sub, nowUtc, months) ==
    from_iran(add_months_shamsi(to_iran(RenewalBase(sub, nowUtc)), months))

\* confirm_purchase 811-815: the callback of a plan's confirm button, for a
\* plan among `plans`
ConfirmPurchase(t, plans) ==
    /\ \E u \in WalletUsers, mo \in plans :
         Begin(t, "purchase", "cp_balance", [u |-> u, months |-> mo, amount |-> PLANS[mo]])
    /\ UNCHANGED <<clock, storeVars, writer, ledger, done, funVars>>

\* a purchase that skips the balance test of lines 817-824
PrecheckSkipped(bal, price) == FALSE

\* confirm_purchase 818: `if bal < price`
Insufficient(bal, price) == bal < price

\* confirm_purchase 817-824: get_wallet_balance and the insufficient-funds exit
CpBalance(t) ==
    /\ At(t, "cp_balance")
    /\ LET bal == get_wallet_balance(loc[t].u)
           l   == [loc[t] EXCEPT !.pre = bal]
       IN  IF Insufficient(bal, l.amount)
           THEN Finish(t, [l EXCEPT !.out = "insufficientFunds"])
           ELSE Goto(t, "td_insert", l) /\ UNCHANGED done
    /\ UNCHANGED <<clock, storeVars, writer, calls, ledger, funVars>>

\* confirm_purchase 827-829: try_deduct_wallet returned ok = False
CpDeductFailed(t) ==
    /\ At(t, "cp_deduct_failed")
    /\ Finish(t, [loc[t] EXCEPT !.out = "deductError"])
    /\ UNCHANGED <<clock, storeVars, writer, calls, ledger, funVars>>

\* confirm_purchase 831, create_order: INSERT .. 'paid_waiting_link', commit
CpOrder(t) ==
    /\ At(t, "cp_order")
    /\ CanWrite(t)
    /\ orders' = Append(orders, [user |-> loc[t].u, months |-> loc[t].months,
                                 amount |-> loc[t].amount,
                                 status |-> "paid_waiting_link", link |-> NoLink,
                                 created |-> now])
    /\ Goto(t, "cp_getsub", [loc[t] EXCEPT !.order = Len(orders) + 1])
    /\ UNCHANGED <<clock, wallets, users, referrals, refProfit, deposits, subs, links,
                   writer, calls, ledger, done, funVars>>

\* confirm_purchase 833-842: get_subscription, utcnow, the new expiry
CpGetSub(t) ==
    /\ At(t, "cp_getsub")
    /\ LET sub == subs[loc[t].u]
       IN  Goto(t, "cp_setsub", [loc[t] EXCEPT !.sub = sub, !.nowUtc = now,
                                   !.newExp = NewExpiry(sub, now, loc[t].months)])
    /\ UNCHANGED <<clock, storeVars, writer, calls, ledger, done, funVars>>

\* an upsert that writes expires_at only
KeepsFlags(sub, exp) == [sub EXCEPT !.row = TRUE, !.expires = exp]

\* set_subscription 469-482: the row after the upsert, both flags 0
set_subscription(sub, exp) ==
    [row |-> TRUE, expires |-> exp, reminded |-> FALSE, notified |-> FALSE]

\* confirm_purchase 844, set_subscription: upsert, both flags 0, commit
CpSetSub(t) ==
    /\ At(t, "cp_setsub")
    /\ CanWrite(t)
    /\ subs' = [subs EXCEPT ![loc[t].u] = set_subscription(@, loc[t].newExp)]
    /\ Goto(t, "pop_begin", loc[t])
    /\ UNCHANGED <<clock, wallets, users, referrals, refProfit, deposits, orders, links,
                   writer, calls, ledger, done, funVars>>

\* confirm_purchase 848-857: bot.send_message to the buyer; a failure is swallowed
CpNotify(t) ==
    /\ At(t, "cp_notify")
    /\ \E delivered \in BOOLEAN :
         Goto(t, "cp_delivered", [loc[t] EXCEPT !.sent = delivered])
    /\ UNCHANGED <<clock, storeVars, writer, calls, ledger, done, funVars>>

\* confirm_purchase 858, set_order_delivered: UPDATE orders, commit
CpDelivered(t) ==
    /\ At(t, "cp_delivered")
    /\ CanWrite(t)
    /\ orders' = [orders EXCEPT ![loc[t].order] =
                     [@ EXCEPT !.status = "delivered", !.link = loc[t].link]]
    /\ Finish(t, [loc[t] EXCEPT !.out = "delivered"])
    /\ UNCHANGED <<clock, wallets, users, referrals, refProfit, deposits, subs, links,
                   writer, calls, ledger, funVars>>

\* confirm_purchase 868-887: no link; the buyer is queued, the admins are told
CpQueued(t) ==
    /\ At(t, "cp_queued")
    /\ Finish(t, [loc[t] EXCEPT !.out = "queued"])
    /\ UNCHANGED <<clock, storeVars, writer, calls, ledger, funVars>>


\* ------------------------------------------------------------------------
\* Wallet specification: concurrent credits, debits and purchases on one
\* wallet
\* ------------------------------------------------------------------------
StartBalances == {0, 100000, 150000, 300000}

UsersRegistered == users = [u \in Users |-> [row |-> TRUE, referrer |-> 0]]

\* a link as add_links inserts it
NewLink(v) == [link |-> v, used |-> FALSE, order |-> 0, user |-> 0, deleted |-> FALSE]

WalletInit ==
    /\ now = DateTime(2026, 2, 19, Noon)
    /\ ticks = 0
    /\ wallets \in [Users -> {NoWallet} \cup
                              {[row |-> TRUE, balance |-> b] : b \in StartBalances}]
    /\ \A u \in Users \ WalletUsers : wallets[u] = NoWallet
    /\ UsersRegistered
    /\ referrals = {}
    /\ refProfit = [u \in Users |-> 0]
    /\ deposits = <<>>
    /\ orders = <<>>
    /\ subs = [u \in Users |-> NoSub]
    /\ links = <<NewLink("L1")>>
    /\ TasksIdle
    /\ CalIdle

WalletNext ==
    \E t \in Tasks :
        \/ CallCredit(t) \/ CallDebit(t) \/ Return(t)
        \/ AwbInsert(t) \/ AwbUpdate(t) \/ AwbSelect(t)
        \/ TdInsert(t) \/ TdSelect(t) \/ TdUpdate(t) \/ TdReselect(t)
        \/ ConfirmPurchase(t, {2}) \/ CpBalance(t) \/ CpDeductFailed(t) \/ CpOrder(t)
        \/ CpGetSub(t) \/ CpSetSub(t) \/ PopBegin(t) \/ PopSelect(t) \/ PopUpdate(t)
        \/ CpNotify(t) \/ CpDelivered(t) \/ CpQueued(t)

SpecWallet == WalletInit /\ [][WalletNext]_vars

\* C1: under every interleaving of credits, debits and purchases on a
\* wallet, its balance is never negative.
NoNegativeBalance == \A u \in Users : wallets[u].balance >= 0

\* two purchases raced for the same money: one was debited, the other's
\* try_deduct_wallet refused, and the wallet is empty, not overdrawn
RacingDebitRefused ==
    \E r \in done :
        /\ r.h = "purchase" /\ r.out = "deductError" /\ r.pre >= r.amount
        /\ wallets[r.u].balance = 0

AllIdle == \A t \in Tasks : pc[t] = "idle"

\* C4: when every call has returned, the balance is the initial balance plus
\* the credits that returned minus the debits that returned True.
LedgerBalances ==
    AllIdle => \A u \in Users :
        get_wallet_balance(u) = ledger[u].start + ledger[u].credited - ledger[u].debited

\* credits and debits both happened on the wallet and all calls returned
LedgerWitness ==
    /\ AllIdle
    /\ \E u \in Users : ledger[u].credited > 0 /\ ledger[u].debited > 0

\* C5: tryDebit with balance >= amount subtracts exactly amount and returns
\* (true, balance - amount); otherwise it leaves the balance and returns
\* (false, balance).
TryDebitContract ==
    \A r \in done : r.h = "debit" =>
        IF r.seen >= r.amount
        THEN r.ok /\ r.after = r.seen - r.amount /\ r.ret = r.seen - r.amount
        ELSE ~r.ok /\ r.after = r.seen /\ r.ret = r.seen


BeforeDebit == {"cp_balance", "td_insert", "td_select", "cp_deduct_failed"}

RefProfit(amount) == IntOf(IntOfProduct(BigOf(amount), REF_PERCENT))

\* deposit_approve 705: the approve button of a deposit request
DepositApprove(t) ==
    /\ \E d \in DOMAIN deposits : Begin(t, "approve", "dep_get", [dep |-> d])
    /\ UNCHANGED <<clock, storeVars, writer, ledger, done, funVars>>

\* deposit_reject 757: the reject button of a deposit request
DepositReject(t) ==
    /\ \E d \in DOMAIN deposits : Begin(t, "reject", "dep_get", [dep |-> d])
    /\ UNCHANGED <<clock, storeVars, writer, ledger, done, funVars>>

\* deposit_approve 707 / deposit_reject 759: dep["status"] == "pending_admin"
Actionable(dep) == dep.status = "pending_admin"

\* deposit_approve 706-712 / deposit_reject 758-761: get_deposit_request and
\* the "not actionable" exit
DepGet(t) ==
    /\ At(t, "dep_get")
    /\ LET dep == deposits[loc[t].dep]
       IN  IF Actionable(dep)
           THEN /\ Goto(t, "dep_status", [loc[t] EXCEPT !.u = dep.user, !.amount = dep.amount])
                /\ UNCHANGED done
           ELSE Finish(t, [loc[t] EXCEPT !.out = "notActionable"])
    /\ UNCHANGED <<clock, storeVars, writer, calls, ledger, funVars>>

\* deposit_approve 714 / deposit_reject 763, set_deposit_status: UPDATE, commit
DepStatus(t) ==
    /\ At(t, "dep_status")
    /\ CanWrite(t)
    /\ deposits' = [deposits EXCEPT ![loc[t].dep].status =
                       IF loc[t].h = "approve" THEN "approved" ELSE "rejected"]
    /\ IF loc[t].h = "approve"
       THEN /\ Goto(t, "awb_insert", [loc[t] EXCEPT !.cu = loc[t].u,
                                        !.camount = loc[t].amount, !.stage = "owner"])
            /\ UNCHANGED done
       ELSE Finish(t, [loc[t] EXCEPT !.out = "rejected"])
    /\ UNCHANGED <<clock, wallets, users, referrals, refProfit, orders, subs, links,
                   writer, calls, ledger, funVars>>

\* deposit_approve 717-722: get_user, the referrer and its profit
DaUser(t) ==
    /\ At(t, "da_user")
    /\ LET l   == loc[t]
           ref == IF users[l.u].row THEN users[l.u].referrer ELSE 0
       IN  IF ref # 0 /\ ref # l.u /\ RefProfit(l.amount) > 0
           THEN /\ Goto(t, "awb_insert", [l EXCEPT !.ref = ref, !.cu = ref,
                                            !.camount = RefProfit(l.amount), !.stage = "ref"])
                /\ UNCHANGED done
           ELSE Finish(t, [l EXCEPT !.out = "approved"])
    /\ UNCHANGED <<clock, storeVars, writer, calls, ledger, funVars>>

\* an upsert that takes the profit off the total
ProfitSubtracted(total, profit) == total - profit

\* add_ref_profit 204-205: total_profit = total_profit + excluded.total_profit
AddedProfit(total, profit) == total + profit

\* deposit_approve 723, add_ref_profit: upsert total_profit + profit, commit
DaProfit(t) ==
    /\ At(t, "da_profit")
    /\ CanWrite(t)
    /\ refProfit' = [refProfit EXCEPT ![loc[t].ref] = AddedProfit(@, loc[t].camount)]
    /\ Finish(t, [loc[t] EXCEPT !.out = "approved"])
    /\ UNCHANGED <<clock, wallets, users, referrals, deposits, orders, subs, links,
                   writer, calls, ledger, funVars>>

\* ------------------------------------------------------------------------
\* Deposit specification: concurrent reviews of pending deposit requests
\* ------------------------------------------------------------------------
DepositInit ==
    /\ now = DateTime(2026, 2, 19, Noon)
    /\ ticks = 0
    /\ wallets = [u \in Users |-> [row |-> TRUE, balance |-> 0]]
    /\ users \in [Users -> {[row |-> TRUE, referrer |-> r] : r \in {0} \cup Users}]
    /\ \A u \in Users : users[u].referrer # u
    /\ users[2].referrer = 0
    /\ referrals = {<<users[u].referrer, u>> : u \in {v \in Users : users[v].referrer # 0}}
    /\ refProfit = [u \in Users |-> 0]
    /\ deposits \in {<<[user |-> 1, amount |-> 100000, status |-> "pending_admin"]>>,
                     <<[user |-> 1, amount |-> 100000, status |-> "pending_admin"],
                       [user |-> 2, amount |-> 150000, status |-> "pending_admin"]>>}
    /\ orders = <<>>
    /\ subs = [u \in Users |-> NoSub]
    /\ links = <<>>
    /\ TasksIdle
    /\ CalIdle

DepositNext ==
    \E t \in Tasks :
        \/ DepositApprove(t) \/ DepositReject(t) \/ DepGet(t) \/ DepStatus(t)
        \/ AwbInsert(t) \/ AwbUpdate(t) \/ AwbSelect(t)
        \/ DaUser(t) \/ DaProfit(t)

SpecDeposit == DepositInit /\ [][DepositNext]_vars

\* the reviews of deposit d that acted on it (did not report "not actionable")
Acted(d) ==
    {r \in done : r.dep = d /\ r.h \in {"approve", "reject"} /\ r.out # "notActionable"}

\* C3: of two concurrent reviews of a pending deposit, one of them an
\* approval, at most one acts: the deposit is credited at most once and the
\* other review reports "not actionable".
DepositOneShot ==
    \A d \in DOMAIN deposits :
        /\ Cardinality({r \in Acted(d) : r.h = "approve"}) <= 1
        /\ (\E r \in Acted(d) : r.h = "approve") => Cardinality(Acted(d)) <= 1


\* C30: no step lowers a referrer's profit total, and the total changes
\* only in the add_ref_profit step of a deposit approval, by the positive
\* commission of that approval.
ProfitOnlyGrows ==
    /\ [][\A u \in Users : refProfit'[u] >= refProfit[u]]_vars
    /\ [][\A u \in Users : refProfit'[u] # refProfit[u] =>
             \E t \in Tasks :
                 /\ loc[t].h = "approve" /\ pc[t] = "da_profit" /\ pc'[t] # pc[t]
                 /\ loc[t].ref = u
                 /\ loc[t].camount > 0
                 /\ loc[t].camount = RefProfit(deposits[loc[t].dep].amount)
                 /\ refProfit'[u] = refProfit[u] + loc[t].camount]_vars

\* an approval of a deposit of a referred user added its commission to the
\* referrer's total
ProfitOnlyGrowsWitness ==
    \E r \in done :
        /\ r.h = "approve" /\ r.out = "approved" /\ r.stage = "ref"
        /\ r.camount > 0 /\ r.ref # r.u
        /\ refProfit[r.ref] >= r.camount
        /\ refProfit[r.u] = 0

\* ------------------------------------------------------------------------
\* Allocation specification: concurrent pop_available_link_for_order calls,
\* each for its own waiting order, on a pool of unused links
\* ------------------------------------------------------------------------

\* orders waiting for a link before the calls start
AllocOrders == 2

WaitingOrder(u) ==
    [user |-> u, months |-> 2, amount |-> PLANS[2],
     status |-> "paid_waiting_link", link |-> NoLink, created |-> now]

LinkValues == <<"L1", "L2", "L3", "L4">>

AllocInit ==
    /\ now = DateTime(2026, 2, 19, Noon)
    /\ ticks = 0
    /\ wallets = [u \in Users |-> [row |-> TRUE, balance |-> 0]]
    /\ UsersRegistered
    /\ referrals = {}
    /\ refProfit = [u \in Users |-> 0]
    /\ deposits = <<>>
    /\ orders = [o \in 1..AllocOrders |-> WaitingOrder(1)]
    /\ subs = [u \in Users |-> NoSub]
    /\ \E m \in 0..(AllocOrders - 1) : links = [i \in 1..m |-> NewLink(LinkValues[i])]
    /\ TasksIdle
    /\ CalIdle

\* a caller of allocate(orderId, userId) for an order no other call was made for
CallAllocate(t) ==
    /\ \E o \in DOMAIN orders :
         /\ orders[o].status = "paid_waiting_link"
         /\ \A t2 \in Tasks : loc[t2].order # o
         /\ \A r \in done : r.order # o
         /\ Begin(t, "alloc", "pop_begin", [order |-> o, u |-> orders[o].user])
    /\ UNCHANGED <<clock, storeVars, writer, ledger, done, funVars>>

AllocNext ==
    \E t \in Tasks :
        CallAllocate(t) \/ PopBegin(t) \/ PopSelect(t) \/ PopUpdate(t) \/ Return(t)

SpecAlloc == AllocInit /\ [][AllocNext]_vars

AllocGot == {r \in done : r.h = "alloc" /\ r.link # NoLink}
AllocNone == {r \in done : r.h = "alloc" /\ r.link = NoLink}

\* C2: of N allocate calls on a pool of M unused tokens, min(M, N) return a
\* token and the others none; the returned tokens are pairwise distinct, and
\* no token is recorded for two orders.
AllocExactlyOnce ==
    /\ \A r1, r2 \in AllocGot : r1.link = r2.link => r1.id = r2.id
    /\ \A o1, o2 \in DOMAIN orders :
         (orders[o1].link # NoLink /\ orders[o1].link = orders[o2].link) => o1 = o2
    /\ \A r \in AllocGot :
         /\ links[r.linkId].used /\ links[r.linkId].order = r.order
         /\ links[r.linkId].link = r.link
         /\ orders[r.order].status = "delivered" /\ orders[r.order].link = r.link
    /\ AllIdle =>
         /\ Cardinality(AllocGot) = Min(Len(links), calls)
         /\ Cardinality(AllocNone) = calls - Min(Len(links), calls)

\* N = AllocOrders calls returned on a pool of M = N - 1 >= 1 tokens: one got none
AllocWitness ==
    /\ AllIdle
    /\ calls = AllocOrders
    /\ Len(links) = AllocOrders - 1
    /\ Cardinality(AllocGot) = AllocOrders - 1
    /\ Cardinality(AllocNone) = 1


\* ------------------------------------------------------------------------
\* /start and the referral link (src/main.py 475-505, src/db.py 129-184)
\* ------------------------------------------------------------------------

\* the ids a /start payload may name: the users and one id that never used the bot
RefIds == Users \cup {3}

\* start 476-485: /start of user u; payload r (0: none or not a number)
\* among `refs`
StartWith(t, refs) ==
    /\ \E u \in {1}, r \in refs :
         Begin(t, "start", "st_upsert",
               [u |-> u, ref |-> r,
                late |-> \E d \in done : d.h = "start" /\ d.u = u /\ d.out = "linked"])
    /\ UNCHANGED <<clock, storeVars, writer, ledger, done, funVars>>

Start(t) == StartWith(t, {0} \cup RefIds)

\* a /start that takes the user's own id as a referrer
AnyReferral(u, ref) == ref # 0

\* start 484-487: the payload is a number and `referrer_id != user_id`
IsReferral(u, ref) == ref # 0 /\ ref # u

\* start 477, upsert_user: the users row (referrer_id untouched), the wallet
\* row and the referral_profits row, one commit; then lines 484-487
StUpsert(t) ==
    /\ At(t, "st_upsert")
    /\ CanWrite(t)
    /\ LET u == loc[t].u
       IN  /\ users' = [users EXCEPT ![u].row = TRUE]
           /\ wallets' = [wallets EXCEPT ![u].row = TRUE]
           /\ IF IsReferral(u, loc[t].ref)
              THEN Goto(t, "sr_select", loc[t]) /\ UNCHANGED done
              ELSE Finish(t, [loc[t] EXCEPT !.out = "noReferral"])
    /\ UNCHANGED <<clock, referrals, refProfit, deposits, orders, subs, links,
                   writer, calls, ledger, funVars>>

\* a set_referrer_if_empty that overwrites a referrer already set
ReferrerAlwaysEmpty(row) == row.row

\* set_referrer_if_empty 165-168: the row exists and its referrer_id is NULL
ReferrerEmpty(row) == row.row /\ row.referrer = 0

\* set_referrer_if_empty 163-168: SELECT referrer_id and the two `return False`
SrSelect(t) ==
    /\ At(t, "sr_select")
    /\ IF ReferrerEmpty(users[loc[t].u])
       THEN Goto(t, "sr_update", loc[t]) /\ UNCHANGED done
       ELSE Finish(t, [loc[t] EXCEPT !.ok = FALSE, !.out = "notLinked"])
    /\ UNCHANGED <<clock, storeVars, writer, calls, ledger, funVars>>

\* set_referrer_if_empty 169-171: UPDATE users SET referrer_id, commit
SrUpdate(t) ==
    /\ At(t, "sr_update")
    /\ CanWrite(t)
    /\ users' = [users EXCEPT ![loc[t].u].referrer = loc[t].ref]
    /\ Goto(t, "ar_insert", [loc[t] EXCEPT !.ok = TRUE])
    /\ UNCHANGED <<clock, wallets, referrals, refProfit, deposits, orders, subs, links,
                   writer, calls, ledger, done, funVars>>

\* add_referral 174-184: INSERT; referred_id UNIQUE makes a second edge of
\* the same referred user raise, and the function returns False
ArInsert(t) ==
    /\ At(t, "ar_insert")
    /\ CanWrite(t)
    /\ IF \E e \in referrals : e[2] = loc[t].u
       THEN /\ UNCHANGED referrals
            /\ Finish(t, [loc[t] EXCEPT !.ok = FALSE, !.out = "edgeRefused"])
       ELSE /\ referrals' = referrals \cup {<<loc[t].ref, loc[t].u>>}
            /\ Finish(t, [loc[t] EXCEPT !.ok = TRUE, !.out = "linked"])
    /\ UNCHANGED <<clock, wallets, users, refProfit, deposits, orders, subs, links,
                   writer, calls, ledger, funVars>>

\* ------------------------------------------------------------------------
\* Referral specification: /start of one user with referral payloads
\* ------------------------------------------------------------------------
ReferralInit ==
    /\ now = DateTime(2026, 2, 19, Noon)
    /\ ticks = 0
    /\ StoreEmpty
    /\ TasksIdle
    /\ CalIdle

ReferralNext ==
    \E t \in Tasks : Start(t) \/ StUpsert(t) \/ SrSelect(t) \/ SrUpdate(t) \/ ArInsert(t)

SpecReferral == ReferralInit /\ [][ReferralNext]_vars

\* C6: a linkReferral(A, C) that starts after a linkReferral(A, B) succeeded
\* fails, none of its steps changes A's referrer or the referral edges, and
\* there is never a second edge with referred = A.
ReferralOneShot ==
    /\ [](\A r \in done : (r.h = "start" /\ r.late) => r.out # "linked")
    /\ [](\A e1, e2 \in referrals : e1[2] = e2[2] => e1 = e2)
    /\ [][\A t \in Tasks : (loc[t].late /\ pc'[t] # pc[t]) =>
             /\ users'[loc[t].u].referrer = users[loc[t].u].referrer
             /\ referrals' = referrals]_vars

\* C28: once a user's referrer is set it never changes, whatever the
\* interleaving of concurrent linkReferral calls for the user and of
\* upsert_user.
ReferrerWrittenOnce ==
    [][\A u \in Users : users[u].referrer # 0 => users'[u].referrer = users[u].referrer]_vars

\* after A was linked to B, a later /start of A naming another referrer C
\* failed; A's referrer and edge are still B's
ReferralWitness ==
    \E r \in done, b \in RefIds :
        /\ r.h = "start" /\ r.late /\ r.out = "notLinked"
        /\ r.ref # b /\ r.ref # r.u
        /\ users[r.u].referrer = b
        /\ referrals = {<<b, r.u>>}


\* ------------------------------------------------------------------------
\* Purchase specification: purchases of one user while the clock advances,
\* from a subscription that is absent, expired or still running
\* ------------------------------------------------------------------------

\* how often the clock advances in one behaviour
MaxTicks == 1

\* the clock advances by twelve hours
Tick ==
    /\ ticks < MaxTicks
    /\ ticks' = ticks + 1
    /\ now' = IF now.tod + 720 >= 1440
              THEN [GregNextDay(now) EXCEPT !.tod = now.tod + 720 - 1440]
              ELSE [now EXCEPT !.tod = now.tod + 720]
    /\ UNCHANGED <<storeVars, taskVars, funVars>>

\* 2026-02-19 is 30 Bahman 1404; 2025-09-21 21:00 UTC is 22 Sep 00:30 in
\* Iran, 31 Shahrivar 1404
PurchaseInstants == {DateTime(2026, 2, 19, 600), DateTime(2025, 9, 21, 1260)}

\* an expiry before both instants and one after both
PurchaseExpiries == {DateTime(2025, 8, 1, 480), DateTime(2026, 3, 20, 1290)}

\* a user without a subscription holds the price of two plans, one with a
\* subscription the price of one
PurchaseInit ==
    /\ now \in PurchaseInstants
    /\ ticks = 0
    /\ UsersRegistered
    /\ referrals = {}
    /\ refProfit = [u \in Users |-> 0]
    /\ deposits = <<>>
    /\ orders = <<>>
    /\ \E s \in {NoSub} \cup {[row |-> TRUE, expires |-> e, reminded |-> f, notified |-> f]
                              : e \in PurchaseExpiries, f \in BOOLEAN} :
         /\ s.row => (s.notified <=> ~DtAfter(s.expires, now))
         /\ subs = [u \in Users |-> IF u \in WalletUsers THEN s ELSE NoSub]
         /\ wallets = [u \in Users |->
                          IF u \in WalletUsers
                          THEN [row |-> TRUE,
                                balance |-> IF s.row THEN PLANS[2] ELSE 2 * PLANS[2]]
                          ELSE NoWallet]
    /\ links = <<NewLink("L1")>>
    /\ TasksIdle
    /\ CalIdle

\* the clock advances between the handlers
PurchaseNext ==
    \/ (AllIdle /\ Tick)
    \/ \E t \in Tasks :
        \/ ConfirmPurchase(t, {2}) \/ CpBalance(t) \/ CpDeductFailed(t)
        \/ TdInsert(t) \/ TdSelect(t) \/ TdUpdate(t) \/ TdReselect(t)
        \/ CpOrder(t) \/ CpGetSub(t) \/ CpSetSub(t)
        \/ PopBegin(t) \/ PopSelect(t) \/ PopUpdate(t)
        \/ CpNotify(t) \/ CpDelivered(t) \/ CpQueued(t)

SpecPurchase == PurchaseInit /\ [][PurchaseNext]_vars

\* addMonths on a stored (UTC) instant: in Iran time, and back
CivilAddMonths(dt, n) == from_iran(add_months_shamsi(to_iran(dt), n))

\* the expiry a purchase of n months owes, given the subscription row and the clock
ExpectedExpiry(sub, clk, n) ==
    IF sub.row /\ DtAfter(sub.expires, clk)
    THEN CivilAddMonths(sub.expires, n)
    ELSE CivilAddMonths(clk, n)

\* C7: a successful purchase of m months computes, from the subscription it
\* reads, addMonths(currentExpiry, m) when that expiry is in the future and
\* addMonths(now, m) when it is past or absent, and stores it as the expiry.
RenewalFromLaterBase ==
    /\ [][\A t \in Tasks : (pc[t] = "cp_getsub" /\ pc'[t] # pc[t]) =>
             loc'[t].newExp = ExpectedExpiry(subs[loc[t].u], now, loc[t].months)]_vars
    /\ [][\A t \in Tasks : (pc[t] = "cp_setsub" /\ pc'[t] # pc[t]) =>
             /\ subs'[loc[t].u].row
             /\ subs'[loc[t].u].expires = loc[t].newExp]_vars
    /\ [](\A r \in done : r.out \in {"delivered", "queued"} =>
             r.newExp = ExpectedExpiry(r.sub, r.nowUtc, r.months))

\* one purchase renewed from now (expiry past or absent), and a second one
\* extended the still running subscription from its expiry
RenewalWitness ==
    \E r1, r2 \in done :
        /\ r1.out \in {"delivered", "queued"} /\ r2.out \in {"delivered", "queued"}
        /\ ~(r1.sub.row /\ DtAfter(r1.sub.expires, r1.nowUtc))
        /\ r2.sub.row /\ DtAfter(r2.sub.expires, r2.nowUtc)
        /\ r2.newExp = CivilAddMonths(r2.sub.expires, r2.months)
        /\ r2.newExp # CivilAddMonths(r2.nowUtc, r2.months)
        /\ subs[r2.u].expires = r2.newExp

\* ------------------------------------------------------------------------
\* Purchase: debit, order, delivery
\* ------------------------------------------------------------------------

\* the purchases that were debited and got an order
Purchased == {r \in done : r.h = "purchase" /\ r.out \in {"delivered", "queued"}}

RECURSIVE SumAmounts(_)
SumAmounts(S) ==
    IF S = {} THEN 0
    ELSE LET r == CHOOSE x \in S : TRUE IN r.amount + SumAmounts(S \ {r})

OwnerCredited(d) ==
    \/ \E r \in done : r.h = "approve" /\ r.dep = d /\ r.out = "approved"
    \/ \E t \in Tasks :
         /\ loc[t].h = "approve" /\ loc[t].dep = d
         /\ \/ loc[t].stage = "ref"
            \/ loc[t].stage = "owner" /\ pc[t] \in {"awb_select", "da_user"}

\* C12: a deposit whose status is rejected has caused no ledger effect: no
\* approval of it has credited its owner (and so none has paid a referrer).
RejectedNoLedgerEffect ==
    \A d \in DOMAIN deposits : deposits[d].status = "rejected" => ~OwnerCredited(d)

\* C13: a deposit's status leaves pending_admin once and never changes after.
StatusChangesOnce ==
    [][\A d \in DOMAIN deposits :
          deposits'[d].status # deposits[d].status =>
              deposits[d].status = "pending_admin"]_vars

\* C14: when every call has completed, a deposit on which an approval
\* completed is approved, and the approval credited the owner's wallet by
\* exactly the deposit's amount.
ApprovedAndCredited ==
    /\ AllIdle =>
         \A r \in done : (r.h = "approve" /\ r.out = "approved") =>
             deposits[r.dep].status = "approved"
    /\ \A r \in done : (r.h = "approve" /\ r.out = "approved") =>
             r.u = deposits[r.dep].user /\ r.amount = deposits[r.dep].amount

\* C16: the referral commission of a deposit is paid at most once.
CommissionOnce ==
    \A d \in DOMAIN deposits :
        Cardinality({r \in done : r.h = "approve" /\ r.dep = d /\ r.ref # 0}) <= 1

\* ------------------------------------------------------------------------
\* Commission specification: profit = int(amount * REF_PERCENT) on the
\* amounts a deposit request can carry (src/main.py 115-125, 720)
\* ------------------------------------------------------------------------

\* the amounts tried are MaxProfitOffset consecutive integers from each base
MaxProfitOffset == 40

\* parse_amount accepts every positive decimal integer
ProfitBases == {<<>>, BigOf(100000), FromDecimal(<<7505, 9993, 7895, 800>>)}

ProfitAmounts == {BigAdd(b, BigOf(k)) : b \in ProfitBases, k \in 1..MaxProfitOffset}

ProfitInit ==
    /\ now = NoDate
    /\ ticks = 0
    /\ StoreEmpty
    /\ TasksIdle
    /\ calPc = "off"
    /\ calIn = NoDate
    /\ calJ = <<0, 0, 0>>
    /\ calN = 0
    /\ calOut = NoDate
    /\ WatchIdle
    /\ numPc = "in"
    /\ numIn \in ProfitAmounts
    /\ numOut = <<>>

\* deposit_approve 720: profit = int(amount * REF_PERCENT)
ProfitCompute ==
    /\ numPc = "in"
    /\ numOut' = IntOfProduct(numIn, REF_PERCENT)
    /\ numPc' = "out"
    /\ UNCHANGED <<clock, storeVars, taskVars, calVars, watchVars, numIn>>

ProfitNext == ProfitCompute

SpecProfit == ProfitInit /\ [][ProfitNext]_vars

\* p = floor(a * 15 / 100)
IsFloorOfRate(p, a) ==
    LET x == BigMul(a, BigOf(15))
    IN  /\ ~BigLess(x, BigMul(p, BigOf(100)))
        /\ BigLess(x, BigMul(BigAdd(p, <<1>>), BigOf(100)))

\* C15: the profit computed on the approval of a deposit of amount a is
\* floor(a * 0.15).
ProfitIsFloor == numPc = "out" => IsFloorOfRate(numOut, numIn)

\* ------------------------------------------------------------------------
\* Admin operations on the link pool (src/db.py 569-617, 673-692,
\* src/main.py 1173-1274)
\* ------------------------------------------------------------------------

\* A text the admin sends is a sequence of pieces, each a blank " " or a
\* word; str.strip() drops the blanks at both ends.
RECURSIVE StripLeft(_)
StripLeft(s) == IF s # <<>> /\ s[1] = " " THEN StripLeft(Tail(s)) ELSE s

RECURSIVE StripRight(_)
StripRight(s) ==
    IF s # <<>> /\ s[Len(s)] = " " THEN StripRight(SubSeq(s, 1, Len(s) - 1)) ELSE s

\* the texts tried hold at most one word, so a stripped text is that word
\* or the empty string
Strip(s) == LET w == StripRight(StripLeft(s)) IN IF w = <<>> THEN "" ELSE w[1]

\* SELECT .. FROM links WHERE id=?: the row exists
LinkRow(pool, id) == id \in DOMAIN pool /\ ~pool[id].deleted

\* a links table without the UNIQUE constraint
LinkNeverTaken(pool, v, id) == FALSE

\* links.link is UNIQUE: a row other than `id` holds the value v
LinkTaken(pool, v, id) == \E j \in DOMAIN pool : j # id /\ LinkRow(pool, j) /\ pool[j].link = v

\* add_links 574-583: the loop over the lines; an INSERT of a value that is
\* present raises and is ignored
RECURSIVE AddLoop(_, _, _)
AddLoop(pool, lines, inserted) ==
    IF lines = <<>> THEN [pool |-> pool, inserted |-> inserted]
    ELSE LET ln == Strip(lines[1])
         IN  IF ln = "" \/ LinkTaken(pool, ln, 0)
             THEN AddLoop(pool, Tail(lines), inserted)
             ELSE AddLoop(Append(pool, NewLink(ln)), Tail(lines), inserted + 1)

\* the messages of the admin while links are being added
Batches == {<<>>,
            << <<"L9">>, <<" ">>, <<" ", "L9">>, <<"L1">>, <<"L8", " ">> >>}

\* the texts of the admin while a link is being edited
EditTexts == {<<" ">>, <<"L2">>, <<" ", "L7">>}

\* admin_links_add_receive 1182-1183: the lines of the message go to add_links
AdminLinksAdd(t) ==
    /\ \E b \in Batches : Begin(t, "add", "al_insert", [lines |-> b])
    /\ UNCHANGED <<clock, storeVars, writer, ledger, done, funVars>>

\* add_links 569-585: the first INSERT takes the write lock, the rows become
\* visible to the other connections at the commit; no other connection
\* writes in between
AlInsert(t) ==
    /\ At(t, "al_insert")
    /\ (\E i \in DOMAIN loc[t].lines : Strip(loc[t].lines[i]) # "") => CanWrite(t)
    /\ LET a == AddLoop(links, loc[t].lines, 0)
       IN  /\ links' = a.pool
           /\ Finish(t, [loc[t] EXCEPT !.ret = a.inserted])
    /\ UNCHANGED <<clock, wallets, users, referrals, refProfit, deposits, orders, subs,
                   writer, calls, ledger, funVars>>

\* admin_links_del 1229-1230: the delete button of link #id
AdminLinksDel(t) ==
    /\ \E id \in 1..(Len(links) + 1) : Begin(t, "del", "dl_select", [linkId |-> id])
    /\ UNCHANGED <<clock, storeVars, writer, ledger, done, funVars>>

\* delete_link 609-614: SELECT is_used, `return False` without a row or for
\* a used link
DlSelect(t) ==
    /\ At(t, "dl_select")
    /\ LET id == loc[t].linkId
       IN  IF ~LinkRow(links, id) \/ links[id].used
           THEN Finish(t, [loc[t] EXCEPT !.ok = FALSE])
           ELSE Goto(t, "dl_delete", loc[t]) /\ UNCHANGED done
    /\ UNCHANGED <<clock, storeVars, writer, calls, ledger, funVars>>

\* delete_link 615-617: DELETE .. WHERE id=?, commit, `return True`
DlDelete(t) ==
    /\ At(t, "dl_delete")
    /\ CanWrite(t)
    /\ LET id == loc[t].linkId
       IN  links' = IF LinkRow(links, id) THEN [links EXCEPT ![id].deleted = TRUE] ELSE links
    /\ Finish(t, [loc[t] EXCEPT !.ok = TRUE])
    /\ UNCHANGED <<clock, wallets, users, referrals, refProfit, deposits, orders, subs,
                   writer, calls, ledger, funVars>>

\* admin_links_edit_save 1258-1263: link_id of the dialogue and the stripped
\* text go to update_link
AdminLinksEditSave(t) ==
    /\ \E id \in 1..(Len(links) + 1), txt \in EditTexts :
         Begin(t, "edit", "ul_select", [linkId |-> id, link |-> Strip(txt)])
    /\ UNCHANGED <<clock, storeVars, writer, ledger, done, funVars>>

\* update_link 674-684: `return False` for an empty text, without a row or
\* for a used link
UlSelect(t) ==
    /\ At(t, "ul_select")
    /\ LET id == loc[t].linkId
       IN  IF loc[t].link = "" \/ ~LinkRow(links, id) \/ links[id].used
           THEN Finish(t, [loc[t] EXCEPT !.ok = FALSE])
           ELSE Goto(t, "ul_update", loc[t]) /\ UNCHANGED done
    /\ UNCHANGED <<clock, storeVars, writer, calls, ledger, funVars>>

\* update_link 686-692: UPDATE .. SET link=? WHERE id=?, commit, `return
\* True`; the UNIQUE constraint raises and the function returns False
UlUpdate(t) ==
    /\ At(t, "ul_update")
    /\ CanWrite(t)
    /\ LET id == loc[t].linkId
           v  == loc[t].link
       IN  IF LinkRow(links, id) /\ LinkTaken(links, v, id)
           THEN /\ UNCHANGED links
                /\ Finish(t, [loc[t] EXCEPT !.ok = FALSE])
           ELSE /\ links' = IF LinkRow(links, id)
                            THEN [links EXCEPT ![id].link = v] ELSE links
                /\ Finish(t, [loc[t] EXCEPT !.ok = TRUE])
    /\ UNCHANGED <<clock, wallets, users, referrals, refProfit, deposits, orders, subs,
                   writer, calls, ledger, funVars>>

\* ------------------------------------------------------------------------
\* Link pool specification: the admin adds, deletes and edits links while
\* waiting orders are allocated a link
\* ------------------------------------------------------------------------

\* links in the pool before the calls start
PoolSize == 3

LinksInit ==
    /\ now = DateTime(2026, 2, 19, Noon)
    /\ ticks = 0
    /\ wallets = [u \in Users |-> [row |-> TRUE, balance |-> 0]]
    /\ UsersRegistered
    /\ referrals = {}
    /\ refProfit = [u \in Users |-> 0]
    /\ deposits = <<>>
    /\ orders = [o \in 1..AllocOrders |-> WaitingOrder(1)]
    /\ subs = [u \in Users |-> NoSub]
    /\ links = [i \in 1..PoolSize |-> NewLink(LinkValues[i])]
    /\ TasksIdle
    /\ CalIdle

LinksNext ==
    \E t \in Tasks :
        \/ CallAllocate(t) \/ PopBegin(t) \/ PopSelect(t) \/ PopUpdate(t) \/ Return(t)
        \/ AdminLinksAdd(t) \/ AlInsert(t)
        \/ AdminLinksDel(t) \/ DlSelect(t) \/ DlDelete(t)
        \/ AdminLinksEditSave(t) \/ UlSelect(t) \/ UlUpdate(t)

SpecLinks == LinksInit /\ [][LinksNext]_vars

\* ------------------------------------------------------------------------
\* Link pool: claims
\* ------------------------------------------------------------------------

\* C17: a token that allocate returned still exists, with the value it had
\* when it was assigned, in every later state.
ConsumedTokenImmutable ==
    \A r \in done : (r.h = "alloc" /\ r.link # NoLink) =>
        /\ LinkRow(links, r.linkId)
        /\ links[r.linkId].link = r.link

\* the call of task t returns in this step with the boolean b
ReturnsWith(t, b) ==
    /\ pc[t] # "idle" /\ pc'[t] = "idle"
    /\ \E r \in done' : r.id = loc[t].id /\ r.ok = b

\* C18: a removeToken that returns finds the token unused and then deletes
\* it and returns true, or else returns false and changes nothing; an
\* editToken that returns finds the token unused, its text not empty and
\* not the value of another token, and then sets the value and returns
\* true, or else returns false and changes nothing.
RemoveEditContract ==
    [][\A t \in Tasks :
          (loc[t].h \in {"del", "edit"} /\ pc[t] # "idle" /\ pc'[t] = "idle") =>
              LET id     == loc[t].linkId
                  v      == loc[t].link
                  unused == LinkRow(links, id) /\ ~links[id].used
              IN  IF loc[t].h = "del"
                  THEN IF unused
                       THEN /\ ReturnsWith(t, TRUE)
                            /\ links' = [links EXCEPT ![id].deleted = TRUE]
                       ELSE /\ ReturnsWith(t, FALSE)
                            /\ links' = links
                  ELSE IF unused /\ v # "" /\ ~LinkTaken(links, v, id)
                       THEN /\ ReturnsWith(t, TRUE)
                            /\ links' = [links EXCEPT ![id].link = v]
                       ELSE /\ ReturnsWith(t, FALSE)
                            /\ links' = links]_vars

\* the values add_links is to insert: the stripped lines that are not empty
\* and not in the pool
NewValues(pool, lines) ==
    {Strip(lines[i]) : i \in DOMAIN lines}
        \ ({""} \cup {pool[j].link : j \in {k \in DOMAIN pool : LinkRow(pool, k)}})

\* C19: no two tokens of the pool hold the same value and none is empty;
\* addTokens appends one token per new value, leaves every token it found
\* as it was, and returns the number of tokens it appended.
TokensUnique ==
    /\ [](\A i, j \in DOMAIN links :
             (LinkRow(links, i) /\ LinkRow(links, j) /\ links[i].link = links[j].link)
                 => i = j)
    /\ [](\A i \in DOMAIN links : links[i].link # "")
    /\ [][\A t \in Tasks :
             (pc[t] = "al_insert" /\ pc'[t] = "idle") =>
                 LET new == NewValues(links, loc[t].lines)
                 IN  /\ Len(links') = Len(links) + Cardinality(new)
                     /\ SubSeq(links', 1, Len(links)) = links
                     /\ {links'[i].link : i \in (Len(links) + 1)..Len(links')} = new
                     /\ \A i \in (Len(links) + 1)..Len(links') : links'[i] = NewLink(links'[i].link)
                     /\ \E r \in done' :
                          r.id = loc[t].id /\ r.ret = Cardinality(new)]_vars

\* a batch with an empty line, a value of the pool and a value given twice
\* was added: two tokens were inserted
TokensUniqueWitness ==
    \E r \in done :
        /\ r.h = "add" /\ Len(r.lines) = 5 /\ r.ret = 2
        /\ \E i \in DOMAIN links : LinkRow(links, i) /\ links[i].link = "L1"
        /\ Cardinality({i \in DOMAIN links : links[i].link = "L9"}) = 1

\* C20: the token allocate is about to return is the oldest unused token of
\* the pool: no unused token has a smaller id.
OldestFirst ==
    \A t \in Tasks : pc[t] = "pop_update" =>
        /\ loc[t].linkId \in UnusedLinks
        /\ \A j \in UnusedLinks : loc[t].linkId <= j

\* allocate takes token #2 of three: #1 was deleted and #3 is unused
OldestFirstWitness ==
    \E t \in Tasks :
        /\ pc[t] = "pop_update"
        /\ loc[t].linkId = 2
        /\ Len(links) >= 3
        /\ links[1].deleted
        /\ 3 \in UnusedLinks

\* ------------------------------------------------------------------------
\* Allocation on an empty pool
\* ------------------------------------------------------------------------

\* the pool holds no unused token
PoolExhausted == \A i \in DOMAIN links : links[i].used \/ links[i].deleted

\* C21: while the pool holds no unused token no allocate changes a token or
\* an order; an allocate that finds the pool so returns none, and the order
\* it was called for is still paid_waiting_link without a token.
EmptyPoolNoEffect ==
    /\ [][PoolExhausted => (links' = links /\ orders' = orders)]_vars
    /\ [][\A t \in Tasks :
             (pc[t] = "pop_select" /\ pc'[t] # "pop_select" /\ PoolExhausted) =>
                 (loc'[t].link = NoLink /\ pc'[t] = "return")]_vars
    /\ [](\A r \in AllocNone :
             /\ orders[r.order].status = "paid_waiting_link"
             /\ orders[r.order].link = NoLink
             /\ \A i \in DOMAIN links : links[i].order # r.order)

\* a call on the emptied pool returned none after another call took the
\* only token
EmptyPoolWitness ==
    \E r \in AllocNone :
        /\ Len(links) >= 1
        /\ PoolExhausted
        /\ orders[r.order].status = "paid_waiting_link"
        /\ \E g \in AllocGot : g.id < r.id

\* ------------------------------------------------------------------------
\* Backlog fulfilment (src/main.py 1277-1306, src/db.py 359-372)
\* ------------------------------------------------------------------------

\* admin_links_fulfill 1283: list_pending_orders(50)
PendingLimit == 50

\* list_pending_orders: the ids of the paid_waiting_link orders, ascending,
\* at most `limit` of them
list_pending_orders(limit) ==
    LET ids == SelectSeq([i \in 1..Len(orders) |-> i],
                         LAMBDA i : orders[i].status = "paid_waiting_link")
    IN  SubSeq(ids, 1, Min(limit, Len(ids)))

\* admin_links_fulfill 1278: the fulfil button
AdminLinksFulfill(t) ==
    /\ Begin(t, "fulfill", "fl_list", <<>>)
    /\ UNCHANGED <<clock, storeVars, writer, ledger, done, funVars>>

\* admin_links_fulfill 1283-1294: the pending orders; without one the
\* handler answers and returns, else the loop starts with the first
FlList(t) ==
    /\ At(t, "fl_list")
    /\ LET pending == list_pending_orders(PendingLimit)
       IN  IF pending = <<>>
           THEN Finish(t, [loc[t] EXCEPT !.out = "noPending"])
           ELSE /\ Goto(t, "pop_begin",
                        [loc[t] EXCEPT !.pending = Tail(pending), !.order = pending[1],
                                       !.u = orders[pending[1]].user])
                /\ UNCHANGED done
    /\ UNCHANGED <<clock, storeVars, writer, calls, ledger, funVars>>

\* admin_links_fulfill 1295-1298: bot.send_message to the buyer; a failure
\* is swallowed
FlSend(t) ==
    /\ At(t, "fl_send")
    /\ \E delivered \in BOOLEAN :
         Goto(t, "fl_delivered", [loc[t] EXCEPT !.sent = delivered])
    /\ UNCHANGED <<clock, storeVars, writer, calls, ledger, done, funVars>>

\* admin_links_fulfill 1299-1300: set_order_delivered, sent += 1, and the
\* next order of the list
FlDelivered(t) ==
    /\ At(t, "fl_delivered")
    /\ CanWrite(t)
    /\ LET l == loc[t]
           m == [l EXCEPT !.ret = l.ret + 1, !.served = Append(l.served, l.order),
                          !.sent = FALSE]
       IN  /\ orders' = [orders EXCEPT ![l.order] =
                            [@ EXCEPT !.status = "delivered", !.link = l.link]]
           /\ IF l.pending = <<>>
              THEN Goto(t, "fl_count", m)
              ELSE Goto(t, "pop_begin",
                        [m EXCEPT !.pending = Tail(l.pending), !.order = l.pending[1],
                                  !.u = orders[l.pending[1]].user,
                                  !.link = NoLink, !.linkId = 0])
    /\ UNCHANGED <<clock, wallets, users, referrals, refProfit, deposits, subs, links,
                   writer, calls, ledger, done, funVars>>

\* admin_links_fulfill 1302-1306: count_links and the answer with `sent`
FlCount(t) ==
    /\ At(t, "fl_count")
    /\ Finish(t, [loc[t] EXCEPT !.out = "fulfilled"])
    /\ UNCHANGED <<clock, storeVars, writer, calls, ledger, funVars>>

\* ------------------------------------------------------------------------
\* Fulfilment specification: the fulfil button, one run at a time, on a
\* backlog of waiting orders and a pool of links
\* ------------------------------------------------------------------------

\* the longest backlog tried
MaxPending == 51

\* link #i of a pool
PoolLink(i) == NewLink(ToString(i))

FulfillInit ==
    /\ now = DateTime(2026, 2, 19, Noon)
    /\ ticks = 0
    /\ wallets = [u \in Users |-> [row |-> TRUE, balance |-> 0]]
    /\ UsersRegistered
    /\ referrals = {}
    /\ refProfit = [u \in Users |-> 0]
    /\ deposits = <<>>
    /\ \E n \in {0, 1, 3, MaxPending} :
         orders = [o \in 1..n |-> WaitingOrder(IF o % 2 = 1 THEN 1 ELSE 2)]
    /\ \E m \in {0, 2, 3, MaxPending + 1} : links = [i \in 1..m |-> PoolLink(i)]
    /\ subs = [u \in Users |-> NoSub]
    /\ TasksIdle
    /\ CalIdle

\* no handler runs while the button is pressed
FulfillAlone(t) == AllIdle /\ AdminLinksFulfill(t)

FulfillNext ==
    \E t \in Tasks :
        \/ FulfillAlone(t) \/ FlList(t)
        \/ PopBegin(t) \/ PopSelect(t) \/ PopUpdate(t)
        \/ FlSend(t) \/ FlDelivered(t) \/ FlCount(t)

SpecFulfill == FulfillInit /\ [][FulfillNext]_vars

\* the orders that are paid_waiting_link
Waiting == {o \in DOMAIN orders : orders[o].status = "paid_waiting_link"}

\* C22: a fulfilPending that ran alone served the waiting orders in
\* ascending order of creation, each with a token of the pool; when it
\* returns no order is paid_waiting_link or no token is unused, and the
\* count it reports is the number of orders it delivered.
FulfillDrains ==
    \A r \in done : r.h = "fulfill" =>
        /\ \A i, j \in DOMAIN r.served : i < j => r.served[i] < r.served[j]
        /\ \A i \in DOMAIN r.served : orders[r.served[i]].status = "delivered"
        /\ r.ret = Len(r.served)
        /\ (AllIdle /\ r.id = calls) => (Waiting = {} \/ UnusedLinks = {})

\* ------------------------------------------------------------------------
\* Administrative extension (src/main.py 1059-1101)
\* ------------------------------------------------------------------------

\* admin_order_actions_kb 391-392: the extend buttons of an order
ExtendMonths == {1, 3}

\* admin_order_extend 1060-1066: the extend button of an order among `os`,
\* for a number of months among `months`
AdminOrderExtend(t, os, months) ==
    /\ \E o \in os, mo \in months :
         Begin(t, "extend", "ae_order", [order |-> o, months |-> mo])
    /\ UNCHANGED <<clock, storeVars, writer, ledger, done, funVars>>

\* an extension that always renews user 1
OwnerFirst(o) == 1

\* admin_order_extend 1073: user_id of the order row
OrderOwner(o) == orders[o].user

\* admin_order_extend 1068-1071: get_order_with_user and the not-found exit
AeOrder(t) ==
    /\ At(t, "ae_order")
    /\ IF loc[t].order \in DOMAIN orders
       THEN /\ Goto(t, "ae_getsub", [loc[t] EXCEPT !.u = OrderOwner(loc[t].order)])
            /\ UNCHANGED done
       ELSE Finish(t, [loc[t] EXCEPT !.out = "orderNotFound"])
    /\ UNCHANGED <<clock, storeVars, writer, calls, ledger, funVars>>

\* admin_order_extend 1073-1084: get_subscription, utcnow, the new expiry
AeGetSub(t) ==
    /\ At(t, "ae_getsub")
    /\ LET sub == subs[loc[t].u]
       IN  Goto(t, "ae_setsub", [loc[t] EXCEPT !.sub = sub, !.nowUtc = now,
                                   !.newExp = NewExpiry(sub, now, loc[t].months)])
    /\ UNCHANGED <<clock, storeVars, writer, calls, ledger, done, funVars>>

\* admin_order_extend 1086, set_subscription: upsert, both flags 0, commit
AeSetSub(t) ==
    /\ At(t, "ae_setsub")
    /\ CanWrite(t)
    /\ subs' = [subs EXCEPT ![loc[t].u] = set_subscription(@, loc[t].newExp)]
    /\ Goto(t, "ae_notify", loc[t])
    /\ UNCHANGED <<clock, wallets, users, referrals, refProfit, deposits, orders, links,
                   writer, calls, ledger, done, funVars>>

\* admin_order_extend 1088-1097: bot.send_message to the owner; a failure is
\* swallowed
AeNotify(t) ==
    /\ At(t, "ae_notify")
    /\ \E delivered \in BOOLEAN :
         Goto(t, "ae_answer", [loc[t] EXCEPT !.sent = delivered])
    /\ UNCHANGED <<clock, storeVars, writer, calls, ledger, done, funVars>>

\* admin_order_extend 1099-1101: the answer to the admin
AeAnswer(t) ==
    /\ At(t, "ae_answer")
    /\ Finish(t, [loc[t] EXCEPT !.sent = FALSE, !.out = "extended"])
    /\ UNCHANGED <<clock, storeVars, writer, calls, ledger, funVars>>

\* ------------------------------------------------------------------------
\* Expiry watcher (src/main.py 1309-1350, src/db.py 485-525)
\* ------------------------------------------------------------------------

\* expires_at and the bounds of the scans are isoformat() texts of the same
\* layout, which SQLite compares character by character: year, month, day,
\* time of day
IsoLeq(a, b) == ~DtAfter(a, b)

\* the rows of the subscriptions table
Rows == {subs[u] : u \in {v \in Users : subs[v].row}}

\* the users of the selected rows S of subscriptions, in the order of the table
RowsOf(S) ==
    SelectSeq([i \in 1..Cardinality(Users) |-> i], LAMBDA u : subs[u].row /\ subs[u] \in S)

\* fetch_expiring_soon_not_reminded 485-498
fetch_expiring_soon_not_reminded(soon, nowUtc) ==
    RowsOf({s \in Rows : ~s.reminded /\ IsoLeq(s.expires, soon) /\ DtAfter(s.expires, nowUtc)})

\* SELECT .. WHERE expires_at <= ? without notified_expired=0
fetch_expired(nowUtc) == RowsOf({s \in Rows : IsoLeq(s.expires, nowUtc)})

\* fetch_expired_not_notified 507-519
fetch_expired_not_notified(nowUtc) ==
    RowsOf({s \in Rows : ~s.notified /\ IsoLeq(s.expires, nowUtc)})

\* a send whose failure leaves the inner try and ends the cycle
WSendRaises(delivered, next) == IF delivered THEN next ELSE "sleep"

\* subscription_watcher 1329-1330, 1343-1344: `except Exception: pass`, the
\* step after a send is the same whether the message was delivered or not
WAfterSend(delivered, next) == next

\* subscription_watcher 1312-1314: the sleep ends, utcnow
WCycle ==
    /\ wpc = "sleep"
    /\ wpc' = "w_expiring"
    /\ wloc' = [WLoc0 EXCEPT !.nowUtc = now]
    /\ UNCHANGED <<clock, storeVars, taskVars, calVars, numVars, notices, faults>>

\* the next row of the scan, or the step after the loop
WNext(list, each, after) ==
    IF list = <<>>
    THEN /\ wpc' = after
         /\ wloc' = [wloc EXCEPT !.list = <<>>, !.u = 0]
    ELSE /\ wpc' = each
         /\ wloc' = [wloc EXCEPT !.list = Tail(list), !.u = list[1]]

\* subscription_watcher 1315-1318: the subscriptions that end within a day
WFetchExpiring ==
    /\ wpc = "w_expiring"
    /\ WNext(fetch_expiring_soon_not_reminded(GregNextDay(wloc.nowUtc), wloc.nowUtc),
             "w_remind", "w_expired")
    /\ UNCHANGED <<clock, storeVars, taskVars, calVars, numVars, notices, faults>>

\* subscription_watcher 1320-1330: the reminder to the owner; a failure is
\* swallowed
WRemind ==
    /\ wpc = "w_remind"
    /\ \E delivered \in BOOLEAN :
         /\ notices' = Append(notices, [kind |-> "remind", u |-> wloc.u,
                                        exp |-> subs[wloc.u].expires, ok |-> delivered])
         /\ wpc' = WAfterSend(delivered, "w_mark_reminded")
    /\ UNCHANGED <<clock, storeVars, taskVars, calVars, numVars, wloc, faults>>

\* subscription_watcher 1331, mark_reminded_before_expiry: UPDATE, commit
WMarkReminded ==
    /\ wpc = "w_mark_reminded"
    /\ writer = 0
    /\ subs' = [subs EXCEPT ![wloc.u].reminded = TRUE]
    /\ WNext(wloc.list, "w_remind", "w_expired")
    /\ UNCHANGED <<clock, wallets, users, referrals, refProfit, deposits, orders, links,
                   taskVars, calVars, numVars, notices, faults>>

\* subscription_watcher 1333: the subscriptions that ended
WFetchExpired ==
    /\ wpc = "w_expired"
    /\ WNext(fetch_expired_not_notified(wloc.nowUtc), "w_notify", "sleep")
    /\ UNCHANGED <<clock, storeVars, taskVars, calVars, numVars, notices, faults>>

\* subscription_watcher 1335-1344: the notice to every admin; failures are
\* swallowed
WNotify ==
    /\ wpc = "w_notify"
    /\ \E delivered \in BOOLEAN :
         /\ notices' = Append(notices, [kind |-> "expired", u |-> wloc.u,
                                        exp |-> subs[wloc.u].expires, ok |-> delivered])
         /\ wpc' = WAfterSend(delivered, "w_mark_notified")
    /\ UNCHANGED <<clock, storeVars, taskVars, calVars, numVars, wloc, faults>>

\* subscription_watcher 1345, mark_notified_expired: UPDATE, commit
WMarkNotified ==
    /\ wpc = "w_mark_notified"
    /\ writer = 0
    /\ subs' = [subs EXCEPT ![wloc.u].notified = TRUE]
    /\ WNext(wloc.list, "w_notify", "sleep")
    /\ UNCHANGED <<clock, wallets, users, referrals, refProfit, deposits, orders, links,
                   taskVars, calVars, numVars, notices, faults>>

\* ------------------------------------------------------------------------
\* Watcher specification: the watcher cycles while the clock advances and
\* subscriptions are renewed by purchases and administrative extensions
\* ------------------------------------------------------------------------

WatchNow == DateTime(2026, 2, 19, 600)

\* a subscription that ended, and one that ends within a day
WatchEnded == DateTime(2026, 2, 18, 600)
WatchExpiries == {WatchEnded, DateTime(2026, 2, 19, 1200)}

\* a subscription that ended and that the watcher has dealt with
WatchFlagged == [row |-> TRUE, expires |-> WatchEnded, reminded |-> TRUE, notified |-> TRUE]

\* when order #1 was bought
WatchBought == DateTime(2025, 12, 18, 600)

\* the store and the processes at the start: order #1 of user `owner` is
\* delivered, the subscriptions are ss
WatchStart(owner, ss) ==
    /\ now = WatchNow
    /\ ticks = 0
    /\ UsersRegistered
    /\ referrals = {}
    /\ refProfit = [u \in Users |-> 0]
    /\ deposits = <<>>
    /\ orders = <<[user |-> owner, months |-> 2, amount |-> PLANS[2],
                   status |-> "delivered", link |-> "L0", created |-> WatchBought]>>
    /\ wallets = [u \in Users |-> IF u \in WalletUsers
                                   THEN [row |-> TRUE, balance |-> 2 * PLANS[2]] ELSE NoWallet]
    /\ links = <<[NewLink("L0") EXCEPT !.used = TRUE, !.order = 1, !.user = owner],
                 NewLink("L1")>>
    /\ subs = ss
    /\ TasksIdle
    /\ NumIdle
    /\ calPc = "off"
    /\ calIn = NoDate
    /\ calJ = <<0, 0, 0>>
    /\ calN = 0
    /\ calOut = NoDate
    /\ wpc = "sleep"
    /\ wloc = WLoc0
    /\ notices = <<>>
    /\ faults = 0

WatchInit ==
    \E e1 \in WatchExpiries :
        WatchStart(1, [u \in Users |-> IF u = 1 THEN set_subscription(NoSub, e1) ELSE WatchFlagged])

\* the admin extends order #1 by a month, one button at a time
ExtendAlone(t) == AllIdle /\ AdminOrderExtend(t, {1}, {1})

\* the owner of order #1 buys the two-month plan, one button at a time
PurchaseAlone(t) == AllIdle /\ ConfirmPurchase(t, {2})

WatcherStep ==
    \/ WCycle \/ WFetchExpiring \/ WRemind \/ WMarkReminded
    \/ WFetchExpired \/ WNotify \/ WMarkNotified

WatchNext ==
    \/ Tick
    \/ WatcherStep
    \/ \E t \in Tasks :
        \/ ExtendAlone(t) \/ AeOrder(t) \/ AeGetSub(t) \/ AeSetSub(t)
        \/ AeNotify(t) \/ AeAnswer(t)
        \/ PurchaseAlone(t) \/ CpBalance(t)
        \/ TdInsert(t) \/ TdSelect(t) \/ TdUpdate(t) \/ TdReselect(t)
        \/ CpOrder(t) \/ CpGetSub(t) \/ CpSetSub(t)
        \/ PopBegin(t) \/ PopSelect(t) \/ PopUpdate(t)
        \/ CpNotify(t) \/ CpDelivered(t) \/ CpQueued(t)

SpecWatch == WatchInit /\ [][WatchNext]_vars

\* ------------------------------------------------------------------------
\* Watcher specification with failing cycles: any step of a cycle may
\* raise; the event loop resumes the watcher whenever its await is done
\* ------------------------------------------------------------------------

\* how many cycles of one behaviour fail
MaxFaults == 1

\* a watcher whose task ends with the exception
WatcherDies == "dead"

\* subscription_watcher 1347-1350: the exception is logged and the loop
\* goes on to the sleep
AfterFault == "sleep"

\* subscription_watcher 1347-1348: a statement of the cycle raises
WFail ==
    /\ wpc # "sleep"
    /\ faults < MaxFaults
    /\ faults' = faults + 1
    /\ wpc' = AfterFault
    /\ wloc' = [wloc EXCEPT !.list = <<>>, !.u = 0]
    /\ UNCHANGED <<clock, storeVars, taskVars, calVars, numVars, notices>>

\* user 1's subscription ends within a day; that of user 2, the owner of
\* order #1, has ended; the watcher has seen neither yet
LiveInit ==
    WatchStart(2, [u \in Users |-> set_subscription(NoSub, IF u = 1 THEN DateTime(2026, 2, 19, 1200)
                                                                     ELSE WatchEnded)])

LiveNext ==
    \/ WatcherStep
    \/ WFail
    \/ \E t \in Tasks :
        \/ ExtendAlone(t) \/ AeOrder(t) \/ AeGetSub(t) \/ AeSetSub(t)
        \/ AeNotify(t) \/ AeAnswer(t)

SpecWatchLive == LiveInit /\ [][LiveNext]_vars /\ WF_vars(WatcherStep)

\* the subscription of u has ended
Expired(u) == subs[u].row /\ IsoLeq(subs[u].expires, now)

\* C26: the watcher goes on after a cycle that failed, and every
\* subscription that has ended is flagged notified_expired unless it is
\* renewed.
WatcherGoesOn ==
    /\ []<>(wpc = "w_expiring")
    /\ [][faults' # faults => wpc' = "sleep"]_vars
    /\ \A u \in Users : Expired(u) ~> (subs[u].notified \/ ~Expired(u))

\* a cycle failed between the notice about user 2 and the flag write, a
\* later cycle sent the notice again and set the flag
WatcherGoesOnWitness ==
    /\ faults >= 1
    /\ \E i, j \in DOMAIN notices :
         /\ i < j
         /\ notices[i].kind = "expired" /\ notices[j].kind = "expired"
         /\ notices[i].u = 2 /\ notices[j].u = 2
    /\ Expired(2) /\ subs[2].notified
    /\ wpc = "sleep"

\* ------------------------------------------------------------------------
\* Extension specification: concurrent extend buttons, of the one order
\* and of an order that does not exist, while the clock advances
\* ------------------------------------------------------------------------

\* order #1 belongs to user 2, whose subscription has ended or runs on;
\* user 1 holds a wallet and a subscription of their own
ExtendInit ==
    \E e \in {WatchEnded, DateTime(2026, 3, 20, 1290)}, f \in BOOLEAN :
        /\ WatchStart(2, [u \in Users |->
                             IF u = 2
                             THEN [row |-> TRUE, expires |-> e, reminded |-> f, notified |-> f]
                             ELSE WatchFlagged])
        /\ f => ~DtAfter(e, now)

ExtendNext ==
    \/ Tick
    \/ \E t \in Tasks :
        \/ AdminOrderExtend(t, 1..(Len(orders) + 1), ExtendMonths)
        \/ AeOrder(t) \/ AeGetSub(t) \/ AeSetSub(t) \/ AeNotify(t) \/ AeAnswer(t)

SpecExtend == ExtendInit /\ [][ExtendNext]_vars

\* the step of an extension
ExtendStep(t) == loc[t].h = "extend" /\ pc'[t] # pc[t]

\* C27: an extension of an existing order computes the new expiry from the
\* later of now and the owner's current expiry, stores it with both flags
\* reset in the owner's subscription, and changes no other subscription,
\* no wallet, order, token or deposit; for an order that does not exist it
\* reports order-not-found and changes nothing.
ExtendOnlySubscription ==
    /\ [][\A t \in Tasks : (pc[t] = "ae_getsub" /\ pc'[t] # pc[t]) =>
             /\ loc[t].u = orders[loc[t].order].user
             /\ loc'[t].newExp = ExpectedExpiry(subs[loc[t].u], now, loc[t].months)]_vars
    /\ [][\A t \in Tasks : (pc[t] = "ae_setsub" /\ pc'[t] # pc[t]) =>
             subs' = [subs EXCEPT ![orders[loc[t].order].user] =
                         [row |-> TRUE, expires |-> loc[t].newExp,
                          reminded |-> FALSE, notified |-> FALSE]]]_vars
    /\ [][\A t \in Tasks : ExtendStep(t) =>
             /\ UNCHANGED <<wallets, orders, links, deposits, users, referrals, refProfit>>
             /\ pc[t] # "ae_setsub" => subs' = subs]_vars
    /\ [][\A t \in Tasks : (pc[t] = "ae_order" /\ pc'[t] # pc[t] /\ loc[t].order \notin DOMAIN orders) =>
             (pc'[t] = "idle" /\ \E r \in done' \ done : r.id = loc[t].id /\ r.out = "orderNotFound")]_vars
    /\ [](\A r \in done : r.h = "extend" =>
             (r.out = "extended" <=> r.order \in DOMAIN orders)
             /\ (r.out = "orderNotFound" <=> r.order \notin DOMAIN orders))

\* an extension of the order renewed its owner's running subscription by
\* three months and an extension of order #2 found no order
ExtendWitness ==
    \E r1, r2 \in done :
        /\ r1.h = "extend" /\ r1.out = "extended" /\ r1.months = 3
        /\ r1.sub.row /\ DtAfter(r1.sub.expires, r1.nowUtc)
        /\ subs[2].expires = r1.newExp /\ ~subs[2].reminded /\ ~subs[2].notified
        /\ subs[1] = WatchFlagged
        /\ r2.h = "extend" /\ r2.out = "orderNotFound"

\* ------------------------------------------------------------------------

\* the step of a purchase or of an extension that runs set_subscription
RenewalStep(t) == pc[t] \in {"cp_setsub", "ae_setsub"} /\ pc'[t] # pc[t]

\* C23: every write of expires_at, by a purchase or by an administrative
\* extension, leaves both flags false in the same step, and a flag goes
\* from true to false in no other step.
FlagsResetOnlyByRenewal ==
    /\ [][\A t \in Tasks : RenewalStep(t) =>
             subs'[loc[t].u] = [row |-> TRUE, expires |-> loc[t].newExp,
                                reminded |-> FALSE, notified |-> FALSE]]_vars
    /\ [][\A u \in Users : subs'[u].expires # subs[u].expires =>
             (~subs'[u].reminded /\ ~subs'[u].notified)]_vars
    /\ [][\A u \in Users :
             ((subs[u].reminded /\ ~subs'[u].reminded) \/ (subs[u].notified /\ ~subs'[u].notified))
                 => \E t \in Tasks : RenewalStep(t) /\ loc[t].u = u]_vars

\* an extension found the expired flag set, and a purchase wrote the row
\* that is stored now
FlagsResetWitness ==
    \E r1, r2 \in done :
        /\ r1.h = "extend" /\ r1.out = "extended" /\ r1.sub.row /\ r1.sub.notified
        /\ r2.h = "purchase" /\ r2.out \in {"delivered", "queued"}
        /\ subs[r2.u] = [row |-> TRUE, expires |-> r2.newExp,
                         reminded |-> FALSE, notified |-> FALSE]

\* the users a scan of the watcher still holds
Selected(u) == wloc.u = u \/ \E i \in DOMAIN wloc.list : wloc.list[i] = u

AfterNotify(p) ==
    IF p = "cp_notify" THEN "cp_delivered"
    ELSE IF p = "ae_notify" THEN "ae_answer"
    ELSE "fl_delivered"

\* the flag the watcher sets after a notice of a kind
Flagged(kind, sub) == IF kind = "remind" THEN sub.reminded ELSE sub.notified

\* the watcher has sent its last notice and not yet set the flag
MarkPending == wpc \in {"w_mark_reminded", "w_mark_notified"}

\* C25: a message that fails changes nothing of what follows: the send
\* step writes nothing to the store and goes on to the same step either
\* way, an order that got a link is delivered, and the watcher sets the
\* flag of every notice it sent, delivered or not.
NotifyOutcomeIgnored ==
    /\ [][\A t \in Tasks : (pc[t] \in {"cp_notify", "ae_notify", "fl_send"} /\ pc'[t] # pc[t]) =>
             (storeVars' = storeVars /\ pc'[t] = AfterNotify(pc[t]))]_vars
    /\ [][(wpc \in {"w_remind", "w_notify"} /\ wpc' # wpc) =>
             (storeVars' = storeVars
              /\ wpc' = IF wpc = "w_remind" THEN "w_mark_reminded" ELSE "w_mark_notified")]_vars
    /\ [](\A r \in done : (r.h = "purchase" /\ r.link # NoLink) =>
             (orders[r.order].status = "delivered" /\ orders[r.order].link = r.link))
    /\ [](\A i \in DOMAIN notices :
             ((i < Len(notices) \/ ~MarkPending) /\ subs[notices[i].u].expires = notices[i].exp)
                 => Flagged(notices[i].kind, subs[notices[i].u]))

\* a purchase whose message to the buyer failed and an expired notice that
\* reached no operator: the order is delivered and the flag is set
NotifyFailedWitness ==
    /\ \E r \in done : r.h = "purchase" /\ r.link # NoLink /\ ~r.sent
                       /\ orders[r.order].status = "delivered"
    /\ \E i \in DOMAIN notices :
         /\ ~notices[i].ok /\ notices[i].kind = "expired"
         /\ subs[notices[i].u].expires = notices[i].exp
         /\ subs[notices[i].u].notified
    /\ ~MarkPending

\* ------------------------------------------------------------------------
\* Referral and commission specification: /start of user 1 with its own id
\* or user 2's as payload, and approvals of a deposit of user 1
\* ------------------------------------------------------------------------
SelfRefInit ==
    /\ now = DateTime(2026, 2, 19, Noon)
    /\ ticks = 0
    /\ wallets = [u \in Users |-> [row |-> TRUE, balance |-> 0]]
    /\ UsersRegistered
    /\ referrals = {}
    /\ refProfit = [u \in Users |-> 0]
    /\ deposits = <<[user |-> 1, amount |-> 100000, status |-> "pending_admin"]>>
    /\ orders = <<>>
    /\ subs = [u \in Users |-> NoSub]
    /\ links = <<>>
    /\ TasksIdle
    /\ CalIdle

SelfRefNext ==
    \E t \in Tasks :
        \/ StartWith(t, {0} \cup Users) \/ StUpsert(t) \/ SrSelect(t) \/ SrUpdate(t) \/ ArInsert(t)
        \/ DepositApprove(t) \/ DepGet(t) \/ DepStatus(t)
        \/ AwbInsert(t) \/ AwbUpdate(t) \/ AwbSelect(t)
        \/ DaUser(t) \/ DaProfit(t)

SpecSelfRef == SelfRefInit /\ [][SelfRefNext]_vars

\* C29: no user is their own referrer and no referral edge joins a user to
\* themselves; a /start whose payload is the user's own id changes neither
\* the referrer nor the edges, and an approval adds no commission to the
\* depositor's wallet or profit.
NoSelfReferral ==
    /\ [](\A u \in Users : users[u].referrer # u)
    /\ [](\A e \in referrals : e[1] # e[2])
    /\ [](\A r \in done : (r.h = "start" /\ r.ref = r.u) => r.out = "noReferral")
    /\ [][\A t \in Tasks : (loc[t].h = "start" /\ loc[t].ref = loc[t].u /\ pc'[t] # pc[t]) =>
             (users'[loc[t].u].referrer = users[loc[t].u].referrer /\ referrals' = referrals
              /\ pc'[t] = "idle")]_vars
    /\ [][\A t \in Tasks : (loc[t].h = "approve" /\ pc'[t] # pc[t] /\ pc[t] # "dep_get") =>
             /\ refProfit'[loc[t].u] = refProfit[loc[t].u]
             /\ loc[t].stage = "ref" => wallets'[loc[t].u] = wallets[loc[t].u]]_vars

\* user 1 sent /start with its own id, stayed without referrer, and its
\* deposit was approved: the wallet holds the deposit and nobody a profit
NoSelfReferralWitness ==
    \E r1, r2 \in done :
        /\ r1.h = "start" /\ r1.ref = r1.u /\ r1.out = "noReferral"
        /\ r2.h = "approve" /\ r2.out = "approved" /\ r2.u = r1.u
        /\ users[r1.u].referrer = 0 /\ referrals = {}
        /\ wallets[r1.u].balance = r2.amount
        /\ \A u \in Users : refProfit[u] = 0

\* ------------------------------------------------------------------------
\* Subscription status (src/main.py 536-575)
\* ------------------------------------------------------------------------

\* rk_status 538: get_user_orders(user_id, 50)
StatusLimit == 50

\* get_user_orders 332-356: the user's orders, newest first, at most `limit`
get_user_orders(u, limit) ==
    LET mine == SelectSeq([i \in 1..Len(orders) |-> i], LAMBDA o : orders[o].user = u)
        n    == Min(limit, Len(mine))
    IN  [i \in 1..n |-> mine[Len(mine) + 1 - i]]

\* rk_status 546: [::-1], oldest first
Reversed(s) == [i \in 1..Len(s) |-> s[Len(s) + 1 - i]]

\* rk_status 550-560: the expiry shown for an order and its active flag
StatusLine(o, nowIran) ==
    LET expiryIran == add_months_shamsi(to_iran(orders[o].created), orders[o].months)
    IN  [order |-> o, expiry |-> expiryIran, active |-> DtAfter(expiryIran, nowIran)]

\* rk_status 536-537: the status button of a user
RkStatus(t) ==
    /\ \E u \in Users : Begin(t, "status", "rs_orders", [u |-> u])
    /\ UNCHANGED <<clock, storeVars, writer, ledger, done, funVars>>

\* rk_status 538-546: get_user_orders and the no-orders answer
RsOrders(t) ==
    /\ At(t, "rs_orders")
    /\ LET os == get_user_orders(loc[t].u, StatusLimit)
       IN  IF os = <<>>
           THEN Finish(t, [loc[t] EXCEPT !.out = "noOrders"])
           ELSE Goto(t, "rs_answer", [loc[t] EXCEPT !.pending = Reversed(os)]) /\ UNCHANGED done
    /\ UNCHANGED <<clock, storeVars, writer, calls, ledger, funVars>>

\* rk_status 547-575: utcnow, one line per order, the answer
RsAnswer(t) ==
    /\ At(t, "rs_answer")
    /\ LET l == loc[t]
       IN  Finish(t, [l EXCEPT !.nowUtc = now, !.out = "listed",
                               !.lines = [i \in DOMAIN l.pending |->
                                             StatusLine(l.pending[i], to_iran(now))]])
    /\ UNCHANGED <<clock, storeVars, writer, calls, ledger, funVars>>

\* ------------------------------------------------------------------------
\* Status specification: user 1, whose two-month order of 18 December has
\* run out, reads the status between purchases and extensions
\* ------------------------------------------------------------------------
StatusInit ==
    WatchStart(1, [u \in Users |-> IF u = 1 THEN set_subscription(NoSub, NewExpiry(NoSub, WatchBought, 2))
                                            ELSE NoSub])

StatusNext ==
    \/ Tick
    \/ \E t \in Tasks :
        \/ RkStatus(t) \/ RsOrders(t) \/ RsAnswer(t)
        \/ ExtendAlone(t) \/ AeOrder(t) \/ AeGetSub(t) \/ AeSetSub(t)
        \/ AeNotify(t) \/ AeAnswer(t)
        \/ PurchaseAlone(t) \/ CpBalance(t)
        \/ TdInsert(t) \/ TdSelect(t) \/ TdUpdate(t) \/ TdReselect(t)
        \/ CpOrder(t) \/ CpGetSub(t) \/ CpSetSub(t)
        \/ PopBegin(t) \/ PopSelect(t) \/ PopUpdate(t)
        \/ CpNotify(t) \/ CpDelivered(t) \/ CpQueued(t)

SpecStatus == StatusInit /\ [][StatusNext]_vars

\* C31: the status a user reads is active exactly when now is before the
\* expiry of the user's subscription, after any purchases and extensions.
StatusMatchesExpiry ==
    [][\A t \in Tasks : (pc[t] = "rs_answer" /\ pc'[t] # pc[t]) =>
          \E r \in done' \ done :
              /\ r.id = loc[t].id
              /\ \A i \in DOMAIN r.lines :
                     r.lines[i].active <=> (subs[r.u].row /\ DtAfter(subs[r.u].expires, now))]_vars

\* ------------------------------------------------------------------------
\* Queue specification: purchases, the fulfil button and new links, all
\* concurrent, while an order waits for a link
\* ------------------------------------------------------------------------

\* order #1, of user 2, waits; user 1 holds the price of every purchase that
\* can be made; the pool is empty or holds two links added since
QueueInit ==
    /\ now = DateTime(2026, 2, 19, Noon)
    /\ ticks = 0
    /\ UsersRegistered
    /\ referrals = {}
    /\ refProfit = [u \in Users |-> 0]
    /\ deposits = <<>>
    /\ orders = <<WaitingOrder(2)>>
    /\ wallets = [u \in Users |-> [row |-> TRUE,
                                   balance |-> IF u \in WalletUsers
                                               THEN (MaxCalls + 1) * PLANS[2] ELSE 0]]
    /\ \E m \in {0, 2} : links = [i \in 1..m |-> PoolLink(i)]
    /\ subs = [u \in Users |-> NoSub]
    /\ TasksIdle
    /\ CalIdle

QueueNext ==
    \E t \in Tasks :
        \/ ConfirmPurchase(t, {2}) \/ CpBalance(t)
        \/ TdInsert(t) \/ TdSelect(t) \/ TdUpdate(t) \/ TdReselect(t)
        \/ CpOrder(t) \/ CpGetSub(t) \/ CpSetSub(t)
        \/ PopBegin(t) \/ PopSelect(t) \/ PopUpdate(t)
        \/ CpNotify(t) \/ CpDelivered(t) \/ CpQueued(t)
        \/ AdminLinksFulfill(t) \/ FlList(t)
        \/ FlSend(t) \/ FlDelivered(t) \/ FlCount(t)
        \/ AdminLinksAdd(t) \/ AlInsert(t)

SpecQueue == QueueInit /\ [][QueueNext]_vars

\* the used links of the pool
UsedLinks == {i \in DOMAIN links : LinkRow(links, i) /\ links[i].used}

\* C32: every used token is assigned to an existing order that is delivered
\* and whose delivered token is the token's value, and the token of every
\* delivered order is a used token assigned to that order.
UsedTokensMatchOrders ==
    /\ \A i \in UsedLinks :
         /\ links[i].order \in DOMAIN orders
         /\ orders[links[i].order].status = "delivered"
         /\ orders[links[i].order].link = links[i].link
    /\ \A o \in DOMAIN orders :
         orders[o].status = "delivered" =>
             \E i \in UsedLinks : links[i].order = o /\ links[i].link = orders[o].link

\* C33: no two used tokens are assigned to the same order, and the
\* delivered token of an order never changes once it is set.
OneTokenPerOrder ==
    /\ [](\A i, j \in UsedLinks : links[i].order = links[j].order => i = j)
    /\ [][\A o \in DOMAIN orders :
             orders[o].link # NoLink => orders'[o].link = orders[o].link]_vars

\* C38: an order is never delivered while an older order is still
\* paid_waiting_link.
DeliveredOldestFirst ==
    [][\A o \in DOMAIN orders' :
          (orders'[o].status = "delivered"
             /\ (o \in DOMAIN orders => orders[o].status # "delivered"))
              => \A p \in 1..(o - 1) : orders'[p].status # "paid_waiting_link"]_vars

\* C34: in every reachable state a subscription marked notified_expired has
\* ended, and one marked reminded ends within 24 hours at the latest; the
\* watcher sets no flag on a subscription renewed since it was selected.
FlagsMatchExpiry ==
    \A u \in Users :
        subs[u].row =>
            /\ subs[u].notified => ~DtAfter(subs[u].expires, now)
            /\ subs[u].reminded => ~DtAfter(subs[u].expires, GregNextDay(now))

\* addMonths(d, n) is later than d
AddMonthsLater == calPc = "added" => DtAfter(calOut, calIn)

\* C35: every purchase and every extension leaves the subscription with an
\* expiry strictly later than now and strictly later than the expiry it
\* had before, addMonths(d, n) being later than d.
RenewalPushesForward ==
    /\ []AddMonthsLater
    /\ [][\A t \in Tasks :
             (pc[t] \in {"cp_setsub", "ae_setsub"} /\ pc'[t] # pc[t]) =>
                 /\ DtAfter(subs'[loc[t].u].expires, now)
                 /\ subs[loc[t].u].row =>
                        DtAfter(subs'[loc[t].u].expires, subs[loc[t].u].expires)]_vars

\* C36: when two purchases of one user have both succeeded, in any
\* interleaving, the expiry is addMonths applied twice: the second renewal
\* counts from the expiry the first one stored.
RenewalsNotLost ==
    \A a, b \in Purchased :
        (AllIdle /\ a # b /\ a.u = b.u /\ Purchased = {a, b}) =>
            \E r1, r2 \in {a, b} :
                /\ r1 # r2
                /\ subs[a.u].expires =
                       ExpectedExpiry(set_subscription(NoSub,
                                          ExpectedExpiry(r1.sub, r1.nowUtc, r1.months)),
                                      r2.nowUtc, r2.months)

\* the civil month after month jm of year jy, day 1
NextCivilMonth(jy, jm) == IF jm = 12 THEN <<jy + 1, 1, 1>> ELSE <<jy, jm + 1, 1>>

\* C37: for the civil year and month of every date of the range, the last
\* day by daysInMonth converts to Gregorian and back to itself, and the
\* Gregorian day after it converts to day 1 of the next civil month.
MonthDaysAgree ==
    calPc = "civil" =>
        LET last == jalali_month_days(calJ[1], calJ[2])
            g    == jalali_to_gregorian(calJ[1], calJ[2], last)
            next == GregNextDay(DateTime(g[1], g[2], g[3], Noon))
        IN  /\ gregorian_to_jalali(g[1], g[2], g[3]) = <<calJ[1], calJ[2], last>>
            /\ gregorian_to_jalali(next.y, next.m, next.d) = NextCivilMonth(calJ[1], calJ[2])

\* C39: when the linkReferral calls have completed, the edge (r, u) exists
\* if and only if the referrer of user u is r, also when two calls for one
\* user with different referrers interleaved.
ReferralRecordsAgree ==
    AllIdle =>
        \A u \in Users, r \in RefIds :
            <<r, u>> \in referrals <=> (users[u].row /\ users[u].referrer = r)

\* C40: a credit and a tryDebit that returned, failed or not, leave a
\* committed wallet row of the user; after a failed tryDebit of a user
\* without a wallet a wallet with balance 0 exists.
WalletRowCreated ==
    \A r \in done :
        r.h \in {"credit", "debit"} => wallets[r.u].row

====
